---- MODULE Spec2Model ----
(***************************************************************************)
(* A state-machine model of the provider-normalization and transport       *)
(* layer of src/client.js: the CORS proxy rotator and its failover         *)
(* fetcher, the aggregator's model listing, the streaming decoder, the     *)
(* alias resolver, the model listing of the other adapters with the       *)
(* config-caching adapter's chat call, the routing adapter's chat call,   *)
(* and the requests of the base class; and of the session src/bot.js       *)
(* keeps for a user.                                                       *)
(* Every component has its own specification; the variables of the        *)
(* components a specification does not exercise stay parked at their      *)
(* initial values.                                                         *)
(*                                                                         *)
(* JavaScript runs one task at a time: an action is the code that runs     *)
(* between two awaits (or between an await and a yield).                   *)
(***************************************************************************)
EXTENDS Integers, Sequences, FiniteSets, TLC

VARIABLES
    \* CorsProxyManager
    proxies,        \* this.proxies: the ordered list of proxy templates
    currentIndex,   \* this.currentIndex (0-based, as in the code)
    \* the invocations of Client._fetchWithProxyRotation
    call,           \* per invocation: loop position, attempt counter, fetch in flight
    \* PollinationsAI.models.list
    listPc,         \* "idle", "awaiting" (inside Promise.all), "done"
    models,         \* this._models, the adapter's model cache
    listResult,     \* what the last models.list call returned
    listVia,        \* how it returned: "cache", "fetched", "fallback"
    \* Client._streamCompletion: the response it is given
    streamResponse, \* [ok, hasBody]
    lines,          \* the newline-terminated lines the body carries, as bytes
    tail,           \* the bytes after the last newline
    wire,           \* the whole body: every line with its newline, then tail
    fed,            \* how many bytes of wire the reads have delivered
    \* Client._streamCompletion: the generator
    genPc,          \* "start", "reading", "yielded", "completed"
    genEnd,         \* how it completed: "none", "done", "returned", "threw"
    err,            \* what it threw
    buffer,         \* the carry-over text
    pending,        \* the bytes the TextDecoder holds back (stream: true)
    parts,          \* the lines of the current chunk the for loop has yet to visit
    events,         \* the values yielded to the consumer, in order
    locked,         \* the reader holds the lock of response.body
    acquired,       \* calls of getReader
    released,       \* calls of releaseLock
    everRead,       \* reader.read has been called
    cutInLine,      \* some read ended inside a line (a record of the run)
    \* Together._getModel
    lastCall,       \* the last call: its arguments and what it returned
    prevCall,       \* the call before it
    \* the adapters other than the aggregator: models.list, Together's chat
    adapter,        \* the class of the instance
    getApiKey,      \* whether the instance has a getApiKey method
    cachedModels,   \* Together: this._cachedModels
    modelConfigs,   \* Together: this._modelConfigs
    op,             \* the operation in progress, or the last one
    sent,           \* the requests that operation has issued, in order
    listed,         \* the catalog the last successful fetch of models.list returned
    \* HuggingFace: _getMapping and chat.completions.create
    providerMapping, \* this.providerMapping: model id -> routing map
    route,          \* the chat call in progress, or the last one
    posts,          \* the chat requests that call has issued
    \* Client: construction, chat.completions.create, images.generate
    settings,       \* modelAliases, defaultModel, defaulImageModel, imageEndpoint, referrer
    swapTable,      \* this.swapAliases
    callerParams,   \* the caller's params object after the call
    issued,         \* the request the last call issued
    \* bot.js: the messageCreate handler
    usersData,      \* the object usersData holds for the user
    awaiting,       \* the handlers suspended at an await
    chat            \* the last chat request a handler has made, and its number

proxyVars == <<proxies, currentIndex, call, listPc, models, listResult, listVia>>
streamVars == <<streamResponse, lines, tail, wire, fed, genPc, genEnd, err, buffer, pending,
                parts, events, locked, acquired, released, everRead, cutInLine>>
aliasVars == <<lastCall, prevCall>>
catalogVars == <<adapter, getApiKey, cachedModels, modelConfigs, op, sent, listed>>
routeVars == <<providerMapping, route, posts>>
requestVars == <<settings, swapTable, callerParams, issued>>
botVars == <<usersData, awaiting, chat>>

vars == <<proxyVars, streamVars, aliasVars, catalogVars, routeVars, requestVars, botVars>>
notProxyVars == <<streamVars, aliasVars, catalogVars, routeVars, requestVars, botVars>>
notStreamVars == <<proxyVars, aliasVars, catalogVars, routeVars, requestVars, botVars>>
notAliasVars == <<proxyVars, streamVars, catalogVars, routeVars, requestVars, botVars>>
notCatalogVars == <<proxyVars, streamVars, aliasVars, routeVars, requestVars, botVars>>
notRouteVars == <<proxyVars, streamVars, aliasVars, catalogVars, requestVars, botVars>>
notRequestVars == <<proxyVars, streamVars, aliasVars, catalogVars, routeVars, botVars>>
notBotVars == <<proxyVars, streamVars, aliasVars, catalogVars, routeVars, requestVars>>

(***************************************************************************)
(* Bounds.                                                                 *)
(***************************************************************************)
\* The longest proxy list a CorsProxyManager is constructed with.
MaxProxies == 3
\* The most newline-terminated lines a response body carries.
MaxLines == 2

(***************************************************************************)
(* CorsProxyManager                                                        *)
(***************************************************************************)
TextModelsUrl == "https://text.pollinations.ai/models"
ImageModelsUrl == "https://image.pollinations.ai/models"
OtherUrl == "https://api.test/models"

Targets == {TextModelsUrl, ImageModelsUrl, OtherUrl}

\* encodeURIComponent on the targets the model fetches.
encodeURIComponent(targetUrl) ==
    CASE targetUrl = TextModelsUrl -> "https%3A%2F%2Ftext.pollinations.ai%2Fmodels"
      [] targetUrl = ImageModelsUrl -> "https%3A%2F%2Fimage.pollinations.ai%2Fmodels"
      [] targetUrl = OtherUrl -> "https%3A%2F%2Fapi.test%2Fmodels"
      [] OTHER -> "none"

\* The lists a manager can be constructed with: template i at position i.
\* An empty list (or a non-array) makes the constructor throw.
ProxyLists == { [i \in 1..n |-> i] : n \in 1..MaxProxies }

\* What a caller can hand to the constructor: a list, the empty list, or a
\* value that is no array.
Arg(isArray, items) == [isArray |-> isArray, items |-> items]
ConstructorArgs == { Arg(TRUE, list) : list \in ProxyLists \cup {<<>>} } \cup {Arg(FALSE, <<>>)}

\* A constructor whose test lets the empty list through.
constructorThrowsOnNonArray(proxies_) == ~proxies_.isArray

\* The constructor's test: !Array.isArray(proxies) || proxies.length === 0.
constructorThrows(proxies_) == ~proxies_.isArray \/ Len(proxies_.items) = 0

NoUrl == [proxy |-> 0, index |-> 0, target |-> "none"]

\* getProxiedUrl: the current proxy's template followed by the encoded target.
\* index records which position of the list the template was read from.
getProxiedUrl(list, index, targetUrl) ==
    [proxy |-> list[index + 1], index |-> index,
     target |-> encodeURIComponent(targetUrl)]

\* A rotation that forgets to advance.
rotateProxyStuck(list, index) == index

\* rotateProxy: the cursor advances by one, modulo the length of the list.
rotateProxy(list, index) == (index + 1) % Len(list)

(***************************************************************************)
(* Responses of fetch                                                      *)
(***************************************************************************)
NoContentType == "(absent)"
ContentTypes == {NoContentType, "application/json; charset=utf-8", "text/html"}

\* contentType.includes('application/json')
IncludesJson(contentType) ==
    contentType \in {"application/json", "application/json; charset=utf-8"}

\* A body is what response.json() finds: text that is not JSON, an array, an
\* object with a data field, or an object without one.
NoBody == [kind |-> "notjson", items |-> <<>>]
TextRecord(name, id, type) == [name |-> name, id |-> id, type |-> type]
TextBodies ==
    { NoBody,
      [kind |-> "array", items |-> <<>>],
      [kind |-> "array", items |-> <<TextRecord("openai", "", "")>>],
      [kind |-> "wrapped",
       items |-> <<TextRecord("mistral", "", ""), TextRecord("x", "m1", "chat")>>],
      [kind |-> "object", items |-> <<>>] }
ImageBodies ==
    { NoBody,
      [kind |-> "array", items |-> <<"turbo", "flux">>],
      [kind |-> "object", items |-> <<>>] }

\* The bodies a target answers with; the fetcher never looks into a body, so
\* one stands for all on the target that is no catalog.
BodiesFor(targetUrl) ==
    CASE targetUrl = ImageModelsUrl -> ImageBodies
      [] targetUrl = TextModelsUrl -> TextBodies
      [] OTHER -> {NoBody}

\* What a fetch settles with: a rejection, or a response.
Rejected == [settled |-> "rejected", ok |-> FALSE, contentType |-> NoContentType,
             body |-> NoBody]
NoResponse == [settled |-> "none", ok |-> FALSE, contentType |-> NoContentType,
               body |-> NoBody]
Outcomes(targetUrl) ==
    {Rejected} \cup
    { [settled |-> "resolved", ok |-> ok, contentType |-> ct, body |-> b] :
        ok \in BOOLEAN, ct \in ContentTypes, b \in BodiesFor(targetUrl) }

\* An acceptance test that forgets the content type.
AcceptsAnyType(response) == response.settled = "resolved" /\ response.ok

\* The attempt succeeds: the fetch resolved, response.ok, and the Content-Type
\* header is absent or contains application/json.
Accepts(response) ==
    /\ response.settled = "resolved"
    /\ response.ok
    /\ ~(response.contentType # NoContentType /\ ~IncludesJson(response.contentType))

(***************************************************************************)
(* Client._fetchWithProxyRotation                                          *)
(***************************************************************************)
CallIds == {"direct", "text", "image"}

IdleCall == [pc |-> "idle", target |-> "none", maxAttempts |-> 0, attempt |-> 0,
             url |-> NoUrl, response |-> NoResponse,
             c0 |-> 0, used |-> <<>>, fails |-> 0, disturbed |-> FALSE]

\* A loop that runs once more than the list is long.
LoopContinuesOff(attempt, maxAttempts) == attempt <= maxAttempts

\* The for loop's test: attempt < maxAttempts.
LoopContinues(attempt, maxAttempts) == attempt < maxAttempts

\* The invocation up to its first await: maxAttempts is read, attempt 0 wraps
\* the target with the current proxy and issues the fetch.
\* c0, used, fails and disturbed are the record of the invocation: the cursor
\* it started with, the list positions its attempts used, its failed attempts
\* and whether another invocation rotated the cursor while it ran.
StartCall(targetUrl) ==
    [pc |-> "fetching", target |-> targetUrl, maxAttempts |-> Len(proxies),
     attempt |-> 0, url |-> getProxiedUrl(proxies, currentIndex, targetUrl),
     response |-> NoResponse,
     c0 |-> currentIndex, used |-> <<currentIndex>>, fails |-> 0,
     disturbed |-> FALSE]

\* The fetch of an attempt settled with a response the attempt accepts: return it.
Returned(c, response) == [c EXCEPT !.pc = "returned", !.response = response]

\* The fetch of an attempt failed (catch): the cursor has been rotated to index;
\* attempt++ and either the next attempt is issued with the proxy now current,
\* or the loop ends and the invocation throws.
Failed(c, index) ==
    IF LoopContinues(c.attempt + 1, c.maxAttempts)
    THEN [c EXCEPT !.attempt = @ + 1, !.fails = @ + 1,
                   !.url = getProxiedUrl(proxies, index, c.target),
                   !.used = Append(@, index)]
    ELSE [c EXCEPT !.pc = "exhausted", !.attempt = @ + 1, !.fails = @ + 1,
                   !.url = NoUrl]

\* Another invocation rotated the cursor while c was running.
Disturbed(c) == IF c.pc = "fetching" THEN [c EXCEPT !.disturbed = TRUE] ELSE c

Running(id) == call[id].pc = "fetching"
Finished(id) == call[id].pc \in {"returned", "exhausted"}

\* The fetch in flight of invocation id settles with response.
FetchSettles(id, response) ==
    /\ Running(id)
    /\ IF Accepts(response)
       THEN /\ call' = [call EXCEPT ![id] = Returned(@, response)]
            /\ UNCHANGED currentIndex
       ELSE /\ currentIndex' = rotateProxy(proxies, currentIndex)
            /\ call' = [i \in CallIds |->
                          IF i = id THEN Failed(call[i], currentIndex')
                          ELSE Disturbed(call[i])]
    /\ UNCHANGED <<proxies, listPc, models, listResult, listVia>>
    /\ UNCHANGED notProxyVars

\* A caller invokes _fetchWithProxyRotation on its own, while nothing else uses
\* the adapter (section 5: one logical caller at a time).
DirectStart(targetUrl) ==
    /\ listPc # "awaiting"
    /\ ~Running("direct")
    /\ call' = [i \in CallIds |-> IF i = "direct" THEN StartCall(targetUrl) ELSE IdleCall]
    /\ listPc' = "idle"
    /\ listResult' = <<>>
    /\ listVia' = "none"
    /\ UNCHANGED <<proxies, currentIndex, models>>
    /\ UNCHANGED notProxyVars

(***************************************************************************)
(* PollinationsAI: alias table, swap table and models.list                 *)
(***************************************************************************)
\* modelAliases of the aggregator, in the order of Object.keys (a sample of
\* the table: two chat aliases and an image alias).
PollinationsAliases ==
    << <<"gpt-4o-mini", "openai">>,
       <<"mistral-small-3.1-24b", "mistral">>,
       <<"sdxl-turbo", "turbo">> >>

\* this.swapAliases[physical]: the constructor writes swapAliases[alias] = key
\* for every key in order, so the last key that maps to a physical id stays.
\* "" stands for undefined.
swapAliases(aliases, physical) ==
    LET hits == { i \in DOMAIN aliases : aliases[i][2] = physical }
    IN  IF hits = {} THEN ""
        ELSE aliases[CHOOSE i \in hits : \A j \in hits : j <= i][1]

\* a || b || c on strings, "" being the falsy one.
Or3(a, b, c) == IF a # "" THEN a ELSE IF b # "" THEN b ELSE c

Descriptor(id, type) == [id |-> id, type |-> type]

\* The catalog of the final catch block.
FallbackCatalog ==
    << Descriptor("gpt-4.1-mini", "chat"), Descriptor("deepseek-v3", "chat"),
       Descriptor("flux", "image"), Descriptor("gpt-image", "image") >>

\* What Promise.all hands over for one invocation: its response, or the plain
\* value its .catch substituted ({ data: [] } for text, [] for image).
Settled(c) ==
    IF c.pc = "returned"
    THEN [kind |-> "response", body |-> c.response.body]
    ELSE [kind |-> "plain", body |-> [kind |-> "array", items |-> <<>>]]

\* value.json(): a plain value has no json method (TypeError), a body that is
\* not JSON makes json() reject (SyntaxError).
JsonThrows(value) == value.kind = "plain" \/ value.body.kind = "notjson"

\* textModelsResponse.data || textModelsResponse || []
TextModels(body) == body.items

\* something.map(...) throws on what is not an array.
MapThrows(body, unwrap) ==
    IF unwrap THEN body.kind = "object" ELSE body.kind # "array"

mapText(items) ==
    [i \in DOMAIN items |->
        Descriptor(Or3(items[i].id,
                       swapAliases(PollinationsAliases, items[i].name),
                       items[i].name),
                   IF items[i].type # "" THEN items[i].type ELSE "chat")]

mapImage(items) ==
    [i \in DOMAIN items |->
        Descriptor(Or3(swapAliases(PollinationsAliases, items[i]), items[i], items[i]),
                   "image")]

\* The body of the try block after Promise.all, in the order of the code: both
\* json() calls, then both maps; this._models is assigned only when none threw.
ListThrows(text, image) ==
    \/ JsonThrows(text)
    \/ JsonThrows(image)
    \/ MapThrows(text.body, TRUE)
    \/ MapThrows(image.body, FALSE)

\* A catch block that stores the static catalog in the cache.
ListCatchCaches(cache) ==
    [result |-> FallbackCatalog, via |-> "fallback", cache |-> FallbackCatalog]

\* The final catch block: the static catalog, the cache left as it was.
ListCatch(cache) == [result |-> FallbackCatalog, via |-> "fallback", cache |-> cache]

\* A list that does not cache what it fetched.
ListBuildNoCache(text, image) ==
    [result |-> mapText(TextModels(text.body)) \o mapImage(image.body.items),
     via |-> "fetched", cache |-> <<>>]

ListBuild(text, image) ==
    LET built == mapText(TextModels(text.body)) \o mapImage(image.body.items)
    IN  [result |-> built, via |-> "fetched", cache |-> built]

\* models.list up to its first await: a non-empty cache is returned at once;
\* otherwise both catalog fetches are started, text first, within the same
\* task, so both wrap their target with the same current proxy.
ListStart ==
    /\ listPc # "awaiting"
    /\ ~Running("direct")
    /\ IF Len(models) > 0
       THEN /\ listPc' = "done"
            /\ listResult' = models
            /\ listVia' = "cache"
            /\ call' = [i \in CallIds |-> IdleCall]
       ELSE /\ listPc' = "awaiting"
            /\ listResult' = <<>>
            /\ listVia' = "none"
            /\ call' = [i \in CallIds |->
                          CASE i = "text" -> StartCall(TextModelsUrl)
                            [] i = "image" -> StartCall(ImageModelsUrl)
                            [] OTHER -> IdleCall]
    /\ UNCHANGED <<proxies, currentIndex, models>>
    /\ UNCHANGED notProxyVars

\* Promise.all resolves once both invocations have finished; the rest of
\* models.list runs with nothing else touching the adapter.
ListSettles ==
    /\ listPc = "awaiting"
    /\ Finished("text") /\ Finished("image")
    /\ LET text == Settled(call["text"])
           image == Settled(call["image"])
           out == IF ListThrows(text, image) THEN ListCatch(models)
                  ELSE ListBuild(text, image)
       IN  /\ listResult' = out.result
           /\ listVia' = out.via
           /\ models' = out.cache
    /\ listPc' = "done"
    /\ UNCHANGED <<proxies, currentIndex, call>>
    /\ UNCHANGED notProxyVars

\* No adapter is in use.
ProxyParked ==
    /\ proxies = <<1>>
    /\ currentIndex = 0
    /\ call = [i \in CallIds |-> IdleCall]
    /\ listPc = "idle"
    /\ models = <<>>
    /\ listResult = <<>>
    /\ listVia = "none"

ProxyConstructed ==
    /\ \E given \in ConstructorArgs : ~constructorThrows(given) /\ proxies = given.items
    /\ currentIndex = 0
    /\ call = [i \in CallIds |-> IdleCall]
    /\ listPc = "idle"
    /\ models = <<>>
    /\ listResult = <<>>
    /\ listVia = "none"

NextProxy ==
    \/ \E t \in Targets : DirectStart(t)
    \/ \E id \in CallIds : \E r \in Outcomes(call[id].target) : FetchSettles(id, r)
    \/ ListStart
    \/ ListSettles


(***************************************************************************)
(* Text: strings are sequences of characters, a body is a sequence of      *)
(* bytes.  An ASCII byte is its character; "C3" "A9" are the two bytes of  *)
(* the character "e'" (U+00E9) and "FFFD" is the replacement character.    *)
(***************************************************************************)
LF == "\n"
Quote == "\""
DataPrefix == <<"d", "a", "t", "a", ":", " ">>
DoneLine == DataPrefix \o <<"[", "D", "O", "N", "E", "]">>

\* The lines a body is made of, as bytes.
BlankLine == <<>>
CommentLine == <<":", "k">>
MalformedLine == DataPrefix \o <<"{">>
OneLine == DataPrefix \o <<"1">>
NullLine == DataPrefix \o <<"n", "u", "l", "l">>
AccentLine == DataPrefix \o <<Quote, "C3", "A9", Quote>>

\* Payloads of completion chunks: a delta with a reasoning text, a delta with
\* an empty reasoning text, a delta with content only.  A payload travels as
\* one block of bytes: no read ends inside it.
ReasoningPayload == <<"{\"choices\":[{\"delta\":{\"reasoning\":\"x\"}}]}">>
EmptyReasoningPayload == <<"{\"choices\":[{\"delta\":{\"reasoning\":\"\"}}]}">>
ContentPayload == <<"{\"choices\":[{\"delta\":{\"content\":\"x\"}}]}">>

ReasoningLine == DataPrefix \o ReasoningPayload
EmptyReasoningLine == DataPrefix \o EmptyReasoningPayload
ContentLine == DataPrefix \o ContentPayload

\* The lines of a stream of completion chunks.
DeltaLineKinds == {ReasoningLine, EmptyReasoningLine, ContentLine, DoneLine}

LineKinds == {BlankLine, CommentLine, DoneLine, MalformedLine,
              OneLine, NullLine, AccentLine}
\* The body ends on a newline, or in a line that lacks its newline.
Tails == {<<>>, OneLine}

RECURSIVE SeqsUpTo(_, _)
\* The sequences over S of length at most n.
SeqsUpTo(S, n) ==
    IF n = 0 THEN {<<>>}
    ELSE LET shorter == SeqsUpTo(S, n - 1)
         IN  shorter \cup { Append(q, x) : q \in { r \in shorter : Len(r) = n - 1 }, x \in S }

RECURSIVE Serialize(_)
\* Every line followed by its newline.
Serialize(ls) ==
    IF ls = <<>> THEN <<>> ELSE Head(ls) \o <<LF>> \o Serialize(Tail(ls))

RECURSIVE DecodeFrom(_, _, _)
\* TextDecoder.decode(value, { stream: true }) on UTF-8: a lead byte waits for
\* its continuation byte, also across calls; a byte that cannot continue or
\* start a character decodes to the replacement character.
DecodeFrom(held, bytes, text) ==
    IF bytes = <<>> THEN [text |-> text, pending |-> held]
    ELSE LET b == Head(bytes)
         IN  IF held # <<>>
             THEN IF b = "A9" THEN DecodeFrom(<<>>, Tail(bytes), Append(text, "e'"))
                  ELSE DecodeFrom(<<>>, bytes, Append(text, "FFFD"))
             ELSE IF b = "C3" THEN DecodeFrom(<<b>>, Tail(bytes), text)
             ELSE IF b = "A9" THEN DecodeFrom(<<>>, Tail(bytes), Append(text, "FFFD"))
             ELSE DecodeFrom(<<>>, Tail(bytes), Append(text, b))

\* A decoder used without stream: true: what it holds back at the end of a
\* chunk is flushed as a replacement character.
decodeNoStream(held, bytes) ==
    LET d == DecodeFrom(<<>>, bytes, <<>>)
    IN  [text |-> IF d.pending = <<>> THEN d.text ELSE Append(d.text, "FFFD"),
         pending |-> <<>>]

\* decoder.decode(value, { stream: true })
decode(held, bytes) == DecodeFrom(held, bytes, <<>>)

RECURSIVE SplitFrom(_, _, _)
SplitFrom(text, current, out) ==
    IF text = <<>> THEN Append(out, current)
    ELSE IF Head(text) = LF THEN SplitFrom(Tail(text), <<>>, Append(out, current))
    ELSE SplitFrom(Tail(text), Append(current, Head(text)), out)

\* buffer.split('\n'): the pieces between the newlines, the last one included.
split(text) == SplitFrom(text, <<>>, <<>>)

\* A split whose last piece is thrown away instead of kept as the buffer.
popDiscards(pieces) == <<>>

\* parts.pop(): the last piece, which becomes the buffer.
pop(pieces) == pieces[Len(pieces)]

\* A loop that also visits the last piece, the line still without its newline.
FrontAll(pieces) == pieces

\* The pieces the for loop visits: all but the popped one.
Front(pieces) == SubSeq(pieces, 1, Len(pieces) - 1)

Whitespace == {" ", "\t", "\r"}

\* !part.trim()
IsBlank(part) == \A i \in DOMAIN part : part[i] \in Whitespace

startsWith(part, prefix) ==
    Len(part) >= Len(prefix) /\ SubSeq(part, 1, Len(prefix)) = prefix

\* part.slice(6)
slice(part, n) == SubSeq(part, n + 1, Len(part))

(***************************************************************************)
(* JSON.parse on the payloads: numbers 1 and 2, null, strings without      *)
(* escapes and the three completion chunks; every other text the model can *)
(* hand it is a SyntaxError.                                               *)
(***************************************************************************)
JValue(kind, text) == [kind |-> kind, text |-> text]
NoValue == JValue("none", <<>>)

\* A parsed chunk: delta is the delta object of its first choice, as the set of
\* its <<key, value>> fields.
JChunk(delta) == [kind |-> "object", text |-> <<>>, delta |-> delta]

HasField(delta, key) == \E f \in delta : f[1] = key
Field(delta, key) == (CHOOSE f \in delta : f[1] = key)[2]
\* object[key] = value
SetField(delta, key, value) == { f \in delta : f[1] # key } \cup {<<key, value>>}

IsJsonString(text) ==
    /\ Len(text) >= 2
    /\ text[1] = Quote /\ text[Len(text)] = Quote
    /\ \A i \in 2..(Len(text) - 1) : text[i] \notin {Quote, "\\", LF, "\t", "\r"}

JSONparse(text) ==
    CASE text \in {<<"1">>, <<"2">>} -> [throws |-> FALSE, value |-> JValue("number", text)]
      [] text = <<"n", "u", "l", "l">> -> [throws |-> FALSE, value |-> JValue("null", <<>>)]
      [] IsJsonString(text) ->
            [throws |-> FALSE, value |-> JValue("string", SubSeq(text, 2, Len(text) - 1))]
      [] text = ReasoningPayload ->
            [throws |-> FALSE, value |-> JChunk({<<"reasoning", "x">>})]
      [] text = EmptyReasoningPayload ->
            [throws |-> FALSE, value |-> JChunk({<<"reasoning", "">>})]
      [] text = ContentPayload ->
            [throws |-> FALSE, value |-> JChunk({<<"content", "x">>})]
      [] OTHER -> [throws |-> TRUE, value |-> NoValue]

(***************************************************************************)
(* Client._streamCompletion                                                *)
(***************************************************************************)
\* A string is truthy unless it is empty.
Truthy(value) == value # ""

\* if (data.choices && data.choices[0]?.delta?.reasoning)
\*     data.choices[0].delta.reasoning_content = data.choices[0].delta.reasoning
\* A number or a string has no choices and stays as it is.
copyReasoning(data) ==
    IF /\ data.kind = "object"
       /\ HasField(data.delta, "reasoning")
       /\ Truthy(Field(data.delta, "reasoning"))
    THEN JChunk(SetField(data.delta, "reasoning_content", Field(data.delta, "reasoning")))
    ELSE data

\* The body of the for loop for one part: what it yields, if anything.
\* data.choices on null is a TypeError, which the catch around the parse
\* swallows like a SyntaxError.
Visit(part) ==
    IF IsBlank(part) \/ part = DoneLine THEN [yields |-> FALSE, value |-> NoValue]
    ELSE IF startsWith(part, DataPrefix)
    THEN LET data == JSONparse(slice(part, 6))
         IN  IF data.throws \/ data.value.kind = "null"
             THEN [yields |-> FALSE, value |-> NoValue]
             ELSE [yields |-> TRUE, value |-> copyReasoning(data.value)]
    ELSE [yields |-> FALSE, value |-> NoValue]

\* Whether the part makes the parse throw (the catch block runs).
Caught(part) ==
    /\ ~(IsBlank(part) \/ part = DoneLine)
    /\ startsWith(part, DataPrefix)
    /\ LET data == JSONparse(slice(part, 6))
       IN  data.throws \/ data.value.kind = "null"

RECURSIVE RunLoopAborting(_)
\* A loop whose try/catch is around the whole for: a part that throws ends the
\* visit of the chunk.
RunLoopAborting(todo) ==
    IF todo = <<>> THEN [yields |-> FALSE, value |-> NoValue, rest |-> <<>>]
    ELSE IF Caught(Head(todo)) THEN [yields |-> FALSE, value |-> NoValue, rest |-> <<>>]
    ELSE LET v == Visit(Head(todo))
         IN  IF v.yields THEN [yields |-> TRUE, value |-> v.value, rest |-> Tail(todo)]
             ELSE RunLoopAborting(Tail(todo))

RECURSIVE RunLoopEndsAtSentinel(_)
\* A loop that takes the sentinel for the end: the parts after it are dropped.
RunLoopEndsAtSentinel(todo) ==
    IF todo = <<>> THEN [yields |-> FALSE, value |-> NoValue, rest |-> <<>>]
    ELSE IF Head(todo) = DoneLine THEN [yields |-> FALSE, value |-> NoValue, rest |-> <<>>]
    ELSE LET v == Visit(Head(todo))
         IN  IF v.yields THEN [yields |-> TRUE, value |-> v.value, rest |-> Tail(todo)]
             ELSE RunLoopEndsAtSentinel(Tail(todo))

RECURSIVE RunLoop(_)
\* The for loop from its current part to its next yield, or to its end.
RunLoop(todo) ==
    IF todo = <<>> THEN [yields |-> FALSE, value |-> NoValue, rest |-> <<>>]
    ELSE LET v == Visit(Head(todo))
         IN  IF v.yields THEN [yields |-> TRUE, value |-> v.value, rest |-> Tail(todo)]
             ELSE RunLoop(Tail(todo))

\* A check of the body before the status.
PreconditionBodyFirst(resp) ==
    IF ~resp.hasBody THEN "StreamUnsupported"
    ELSE IF ~resp.ok THEN "UpstreamStatus"
    ELSE "none"

\* The two checks the generator starts with, in the order of the code.
Precondition(resp) ==
    IF ~resp.ok THEN "UpstreamStatus"
    ELSE IF ~resp.hasBody THEN "StreamUnsupported"
    ELSE "none"

\* A release placed after the loop instead of in a finally block.
FinallyOnlyAfterLoop(how) == how = "done"

\* try { ... } finally { reader.releaseLock() }: the release runs however the
\* try block is left.
Finally(how) == TRUE

\* The generator leaves its try block: by break (done), by the consumer's
\* return() at a yield (returned) or by an exception (threw).
Leave(how, error) ==
    /\ genPc' = "completed"
    /\ genEnd' = how
    /\ err' = error
    /\ IF Finally(how)
       THEN locked' = FALSE /\ released' = released + 1
       ELSE UNCHANGED <<locked, released>>

\* A decoder that hands an event over and reads on without being asked.
ContinueReadsAhead(todo) ==
    LET run == RunLoop(todo)
    IN  /\ genPc' = "reading"
        /\ parts' = <<>>
        /\ events' = IF run.yields THEN Append(events, run.value) ELSE events

\* The for loop runs on over todo: it suspends at its next yield, or it ends
\* and the while loop calls reader.read() again.
Continue(todo) ==
    LET run == RunLoop(todo)
    IN  IF run.yields
        THEN /\ genPc' = "yielded"
             /\ events' = Append(events, run.value)
             /\ parts' = run.rest
        ELSE /\ genPc' = "reading"
             /\ parts' = <<>>
             /\ UNCHANGED events

\* The consumer's first next(): the generator body starts.  It throws on a
\* response that is not ok or has no body; otherwise it takes the reader and
\* calls reader.read().
FirstPull ==
    /\ genPc = "start"
    /\ IF Precondition(streamResponse) # "none"
       THEN /\ genPc' = "completed"
            /\ genEnd' = "threw"
            /\ err' = Precondition(streamResponse)
            /\ UNCHANGED <<locked, acquired, released, everRead>>
       ELSE /\ genPc' = "reading"
            /\ locked' = TRUE
            /\ acquired' = acquired + 1
            /\ everRead' = TRUE
            /\ UNCHANGED <<genEnd, err, released>>
    /\ UNCHANGED <<streamResponse, lines, tail, wire, fed, buffer, pending, parts, events,
                   cutInLine>>
    /\ UNCHANGED notStreamVars

\* The consumer's next() after a yield: the for loop resumes.
Pull ==
    /\ genPc = "yielded"
    /\ Continue(parts)
    /\ UNCHANGED <<streamResponse, lines, tail, wire, fed, genEnd, err, buffer, pending,
                   locked, acquired, released, everRead, cutInLine>>
    /\ UNCHANGED notStreamVars

\* reader.read() resolves with the next n bytes of the body.
ReadResolves(n) ==
    /\ genPc = "reading"
    /\ fed + n <= Len(wire)
    /\ LET value == SubSeq(wire, fed + 1, fed + n)
           decoded == decode(pending, value)
           pieces == split(buffer \o decoded.text)
       IN  /\ pending' = decoded.pending
           /\ buffer' = pop(pieces)
           /\ Continue(Front(pieces))
           /\ cutInLine' = (cutInLine \/ pop(pieces) # <<>> \/ decoded.pending # <<>>)
    /\ fed' = fed + n
    /\ UNCHANGED <<streamResponse, lines, tail, wire, genEnd, err, locked, acquired,
                   released, everRead>>
    /\ UNCHANGED notStreamVars

\* reader.read() resolves with done: the body has been delivered whole.
ReadDone ==
    /\ genPc = "reading"
    /\ fed = Len(wire)
    /\ Leave("done", "none")
    /\ UNCHANGED <<streamResponse, lines, tail, wire, fed, buffer, pending, parts, events,
                   acquired, everRead, cutInLine>>
    /\ UNCHANGED notStreamVars

\* reader.read() rejects: the exception leaves the generator.
ReadFails ==
    /\ genPc = "reading"
    /\ Leave("threw", "ReadError")
    /\ UNCHANGED <<streamResponse, lines, tail, wire, fed, buffer, pending, parts, events,
                   acquired, everRead, cutInLine>>
    /\ UNCHANGED notStreamVars

\* The consumer stops at an element (break out of for await): return() resumes
\* the generator at its yield with a return completion.
ConsumerStops ==
    /\ genPc = "yielded"
    /\ Leave("returned", "none")
    /\ UNCHANGED <<streamResponse, lines, tail, wire, fed, buffer, pending, parts, events,
                   acquired, everRead, cutInLine>>
    /\ UNCHANGED notStreamVars

GeneratorCreated ==
    /\ fed = 0
    /\ genPc = "start"
    /\ genEnd = "none"
    /\ err = "none"
    /\ buffer = <<>>
    /\ pending = <<>>
    /\ parts = <<>>
    /\ events = <<>>
    /\ locked = FALSE
    /\ acquired = 0
    /\ released = 0
    /\ everRead = FALSE
    /\ cutInLine = FALSE

\* _streamCompletion(streamResponse) has been called on some streamResponse.
InitStream ==
    /\ streamResponse \in [ok : BOOLEAN, hasBody : BOOLEAN]
    /\ lines \in SeqsUpTo(LineKinds, MaxLines)
    /\ tail \in Tails
    /\ wire = Serialize(lines) \o tail
    /\ GeneratorCreated

\* _streamCompletion has been called on a response that carries completion
\* chunks.
InitDelta ==
    /\ streamResponse \in [ok : BOOLEAN, hasBody : BOOLEAN]
    /\ lines \in SeqsUpTo(DeltaLineKinds, MaxLines)
    /\ tail = <<>>
    /\ wire = Serialize(lines) \o tail
    /\ GeneratorCreated

\* No streamResponse is being decoded.
ParkedStream ==
    /\ streamResponse = [ok |-> FALSE, hasBody |-> FALSE]
    /\ lines = <<>>
    /\ tail = <<>>
    /\ wire = <<>>
    /\ GeneratorCreated

NextStream ==
    \/ FirstPull
    \/ Pull
    \/ \E n \in 1..Len(wire) : ReadResolves(n)
    \/ ReadDone
    \/ ReadFails
    \/ ConsumerStops


(***************************************************************************)
(* Together: alias table and _getModel                                     *)
(***************************************************************************)
\* "" stands for a name that is absent (undefined, null or the empty string:
\* all falsy).
Absent == ""

TogetherDefaultModel == "meta-llama/Llama-4-Maverick-17B-128E-Instruct-FP8"

\* An alias entry is one physical id or an array of them.
One(id) == [isArray |-> FALSE, ids |-> <<id>>]
Many(ids) == [isArray |-> TRUE, ids |-> ids]
NoEntry == [isArray |-> FALSE, ids |-> <<>>]

\* Entries of the modelAliases table of the Together constructor.
TogetherAliasKeys ==
    {"llama-3.2-3b", "llama-2-70b", "llama-3.1-70b", "mistral-7b", "flux-pro"}

TogetherAliases(name) ==
    CASE name = "llama-3.2-3b" -> One("meta-llama/Llama-3.2-3B-Instruct-Turbo")
      [] name = "llama-2-70b" ->
            Many(<<"meta-llama/Llama-2-70b-hf", "meta-llama/Llama-2-70b-hf">>)
      [] name = "llama-3.1-70b" -> Many(<<"meta-llama/Meta-Llama-3.1-70B-Instruct-Turbo">>)
      [] name = "mistral-7b" ->
            Many(<<"mistralai/Mistral-7B-Instruct-v0.1", "mistralai/Mistral-7B-Instruct-v0.2",
                   "mistralai/Mistral-7B-Instruct-v0.3">>)
      [] name = "flux-pro" ->
            Many(<<"black-forest-labs/FLUX.1.1-pro", "black-forest-labs/FLUX.1-pro">>)
      [] name = "flux" ->
            Many(<<"black-forest-labs/FLUX.1-schnell-Free", "black-forest-labs/FLUX.1-schnell",
                   "black-forest-labs/FLUX.1.1-pro", "black-forest-labs/FLUX.1-pro",
                   "black-forest-labs/FLUX.1-dev">>)
      [] OTHER -> NoEntry

\* this.modelAliases[model] is truthy.
HasAlias(name) == TogetherAliases(name).ids # <<>>

\* The values Math.random() returns, in tenths: 0 <= random < 1.
Randoms == 0..9

\* Math.floor(random * length), random given in tenths.
FloorOf(random, length) == (random * length) \div 10

\* A resolver that looks the name up before it substitutes the default.
getModelLate(model, defaultModel, random) ==
    IF HasAlias(model)
    THEN LET alias == TogetherAliases(model)
         IN  IF alias.isArray THEN alias.ids[FloorOf(random, Len(alias.ids)) + 1]
             ELSE alias.ids[1]
    ELSE IF model = Absent THEN defaultModel ELSE model

\* _getModel(model, defaultModel); random is what Math.random() returns.
getModel(model, defaultModel, random) ==
    LET name == IF model = Absent THEN defaultModel ELSE model
    IN  IF HasAlias(name)
        THEN LET alias == TogetherAliases(name)
             IN  IF alias.isArray THEN alias.ids[FloorOf(random, Len(alias.ids)) + 1]
                 ELSE alias.ids[1]
        ELSE name

\* The names callers ask for, and the defaults the adapter passes.
ModelNames == TogetherAliasKeys \cup {Absent, "Qwen/QwQ-32B"}
DefaultNames == {Absent, TogetherDefaultModel, "flux-pro", "llama-3.2-3b"}

NoCall == [made |-> FALSE, model |-> Absent, defaultModel |-> Absent, result |-> Absent]

GetModel(model, defaultModel, random) ==
    /\ lastCall' = [made |-> TRUE, model |-> model, defaultModel |-> defaultModel,
                    result |-> getModel(model, defaultModel, random)]
    /\ prevCall' = lastCall
    /\ UNCHANGED notAliasVars

AliasParked == lastCall = NoCall /\ prevCall = NoCall

NextAlias ==
    \E model \in ModelNames, defaultModel \in DefaultNames, random \in Randoms :
        GetModel(model, defaultModel, random)

(***************************************************************************)
(* HuggingFace: providerMapping, _getMapping and chat.completions.create   *)
(***************************************************************************)
HuggingFaceDefaultModel == "meta-llama/Meta-Llama-3-8B-Instruct"

\* Entries of the modelAliases table of the HuggingFace constructor.
HuggingFaceAliases(name) ==
    CASE name = "llama-3" -> "meta-llama/Llama-3.3-70B-Instruct"
      [] name = "gemma-3-27b" -> "google/gemma-3-27b-it"
      [] OTHER -> Absent

\* A routing map: undefined, or an object of entries in key order.
Entry(key, task, providerId) == [key |-> key, task |-> task, providerId |-> providerId]
Routing(entries) == [defined |-> TRUE, entries |-> entries]
NoRouting == [defined |-> FALSE, entries |-> <<>>]

\* this.providerMapping as the constructor sets it: the pairs <<model id,
\* routing map>> in the order of Object.keys.
StaticMapping ==
    << <<"google/gemma-3-27b-it",
         Routing(<<Entry("hf-inference/models/google/gemma-3-27b-it", "conversational",
                         "google/gemma-3-27b-it")>>)>> >>

\* Object.keys(this.providerMapping)
MappingKeys(mapping) == [i \in DOMAIN mapping |-> mapping[i][1]]

\* this.providerMapping[model]
MappingOf(mapping, model) ==
    IF \E i \in DOMAIN mapping : mapping[i][1] = model
    THEN mapping[CHOOSE i \in DOMAIN mapping : mapping[i][1] = model][2]
    ELSE NoRouting

\* this.providerMapping[model] = value: an existing key keeps its place.
SetMapping(mapping, model, value) ==
    IF \E i \in DOMAIN mapping : mapping[i][1] = model
    THEN [i \in DOMAIN mapping |->
            IF mapping[i][1] = model THEN <<model, value>> ELSE mapping[i]]
    ELSE Append(mapping, <<model, value>>)

\* The inferenceProviderMapping of the bodies the mapping endpoint answers
\* with: none, an empty object, one entry, two entries.
Routings ==
    { NoRouting,
      Routing(<<>>),
      Routing(<<Entry("novita", "conversational", "n/llama")>>),
      Routing(<<Entry("hf-inference", "conversational", "h/llama"),
                Entry("together", "text-generation", "t/llama")>>),
      Routing(<<Entry("together", "text-generation", "t/llama"),
                Entry("novita", "conversational", "n/llama")>>),
      Routing(<<Entry("together", "conversational", "t/llama"),
                Entry("novita", "conversational", "n/llama")>>) }

MappingRejected == [settled |-> "rejected", ok |-> FALSE, json |-> FALSE, routing |-> NoRouting]
NoMappingResponse == [settled |-> "none", ok |-> FALSE, json |-> FALSE, routing |-> NoRouting]
MappingOutcomes ==
    {MappingRejected} \cup
    { [settled |-> "resolved", ok |-> ok, json |-> TRUE, routing |-> m] :
        ok \in BOOLEAN, m \in Routings } \cup
    { [settled |-> "resolved", ok |-> TRUE, json |-> FALSE, routing |-> NoRouting] }

ChatPath == "/chat/completions"
RouterUrl == "https://router.huggingface.co/"

\* `https://router.huggingface.co/${apiPath}`, as the pieces it is made of.
apiBaseFor(providerKey, model) ==
    CASE providerKey = "novita" -> <<RouterUrl, "novita/v3/openai">>
      [] providerKey = "hf-inference" -> <<RouterUrl, providerKey, "/models/", model, "/v1">>
      [] OTHER -> <<RouterUrl, providerKey, "/v1">>

\* this.apiBase, which nothing sets.
UndefinedApiBase == <<"undefined">>

\* create after _getMapping: it throws when the routing map is falsy; the for
\* loop looks at the first key only (it breaks or throws in its first pass),
\* and does not run at all on an empty map, which leaves apiBase undefined and
\* the model as it was.
routeFirst(routing, model) ==
    IF ~routing.defined THEN [throws |-> TRUE, url |-> <<>>, model |-> model]
    ELSE IF routing.entries = <<>>
    THEN [throws |-> FALSE, url |-> Append(UndefinedApiBase, ChatPath), model |-> model]
    ELSE LET first == routing.entries[1]
         IN  IF first.task # "conversational"
             THEN [throws |-> TRUE, url |-> <<>>, model |-> model]
             ELSE [throws |-> FALSE,
                   url |-> Append(apiBaseFor(first.key, model), ChatPath),
                   model |-> first.providerId]

IdleRoute ==
    [pc |-> "idle", asked |-> Absent, model |-> Absent, routing |-> NoRouting,
     outcome |-> "none", error |-> "none"]

RouteModels == {Absent, "gemma-3-27b", "llama-3", "zai/glm"}

\* create goes on with the routing map it was given: it throws, or it issues
\* the chat request.
Resolve(r, routing) ==
    LET to == routeFirst(routing, r.model)
    IN  IF to.throws
        THEN /\ route' = [r EXCEPT !.pc = "done", !.routing = routing,
                                   !.outcome = "threw", !.error = "ModelResolutionFailed"]
             /\ posts' = <<>>
        ELSE /\ route' = [r EXCEPT !.pc = "posting", !.routing = routing]
             /\ posts' = <<[url |-> to.url, model |-> to.model]>>

\* chat.completions.create is called: the model is resolved through the
\* aliases; a routing map that providerMapping holds is used at once, for any
\* other model the mapping endpoint is asked.
RouteCall(asked) ==
    /\ route.pc \in {"idle", "done"}
    /\ LET named == IF asked = Absent THEN HuggingFaceDefaultModel ELSE asked
           model == IF HuggingFaceAliases(named) # Absent
                    THEN HuggingFaceAliases(named) ELSE named
           r == [IdleRoute EXCEPT !.asked = asked, !.model = model]
       IN  IF MappingOf(providerMapping, model).defined
           THEN Resolve(r, MappingOf(providerMapping, model))
           ELSE /\ route' = [r EXCEPT !.pc = "mapping"]
                /\ posts' = <<>>
    /\ UNCHANGED providerMapping
    /\ UNCHANGED notRouteVars

\* The fetch of _getMapping settles.
MappingSettles(r) ==
    /\ route.pc = "mapping"
    /\ IF r.settled = "rejected" \/ ~r.ok \/ ~r.json
       THEN /\ route' = [route EXCEPT !.pc = "done", !.outcome = "threw",
                           !.error = IF r.settled = "rejected" THEN "NetworkError"
                                     ELSE IF ~r.ok THEN "UpstreamStatus"
                                     ELSE "SyntaxError"]
            /\ UNCHANGED <<providerMapping, posts>>
       ELSE /\ providerMapping' = SetMapping(providerMapping, route.model, r.routing)
            /\ Resolve(route, r.routing)
    /\ UNCHANGED notRouteVars

\* The chat request settles: create returns the stream or the completion.
RouteSettles(ok) ==
    /\ route.pc = "posting"
    /\ route' = [route EXCEPT !.pc = "done",
                              !.outcome = IF ok THEN "returned" ELSE "threw",
                              !.error = IF ok THEN "none" ELSE "UpstreamStatus"]
    /\ UNCHANGED <<providerMapping, posts>>
    /\ UNCHANGED notRouteVars

\* A HuggingFace adapter has been constructed.
RouteConstructed ==
    /\ providerMapping = StaticMapping
    /\ route = IdleRoute
    /\ posts = <<>>

\* No call is made on it.
RouteParked == RouteConstructed

NextRoute ==
    \/ \E asked \in RouteModels : RouteCall(asked)
    \/ \E r \in MappingOutcomes : MappingSettles(r)
    \/ \E ok \in BOOLEAN : RouteSettles(ok)

(***************************************************************************)
(* models.list of the adapters other than the aggregator, and Together's   *)
(* model catalog, model configs and chat call                              *)
(***************************************************************************)
\* Client stands for the classes that inherit models.list from it (Custom,
\* DeepInfra).
Adapters == {"Client", "Together", "Puter", "HuggingFace"}

GetModels == "GET models"
PostChat == "POST chat"

\* A record of a catalog: its id ("" when it has none), whether it has a
\* config and that config's stop list (Together), whether one of its
\* providers is live and conversational (HuggingFace).
CatalogRecord(id, hasConfig, stop, live) ==
    [id |-> id, hasConfig |-> hasConfig, stop |-> stop, live |-> live]

Llama3B == CatalogRecord("meta-llama/Llama-3.2-3B-Instruct-Turbo", TRUE, <<"<|eot_id|>">>, TRUE)
Mistral1 == CatalogRecord("mistralai/Mistral-7B-Instruct-v0.1", TRUE, <<"</s>">>, TRUE)
Mistral2 == CatalogRecord("mistralai/Mistral-7B-Instruct-v0.2", TRUE, <<>>, FALSE)
QwQ == CatalogRecord("Qwen/QwQ-32B", FALSE, <<>>, FALSE)
Anonymous == CatalogRecord("", TRUE, <<"###">>, FALSE)
Gpt41 == CatalogRecord("gpt-4.1", FALSE, <<>>, FALSE)
Abuse == CatalogRecord("abuse", FALSE, <<>>, FALSE)

EmptyList == [kind |-> "array", items |-> <<>>]

\* The bodies the models endpoint of an adapter answers with.  "wrapped" is an
\* object that holds the list under the key the adapter looks for (data,
\* models), "object" an object that does not.
CatalogBodies(a) ==
    CASE a = "Together" ->
            { NoBody, EmptyList,
              [kind |-> "array", items |-> <<Llama3B, QwQ>>],
              [kind |-> "array", items |-> <<Anonymous, Mistral1, Mistral2>>],
              [kind |-> "object", items |-> <<>>] }
      [] a = "Puter" ->
            { NoBody,
              [kind |-> "wrapped", items |-> <<Gpt41, Abuse, QwQ>>],
              [kind |-> "object", items |-> <<>>] }
      [] a = "HuggingFace" ->
            { NoBody,
              [kind |-> "array", items |-> <<Llama3B, QwQ>>],
              [kind |-> "object", items |-> <<>>] }
      [] OTHER ->
            { NoBody,
              [kind |-> "array", items |-> <<Gpt41>>],
              [kind |-> "wrapped", items |-> <<Gpt41, QwQ>>],
              [kind |-> "object", items |-> <<>>] }

\* What the fetch of the models endpoint settles with.
CatalogRejected == [settled |-> "rejected", ok |-> FALSE, body |-> NoBody]
NoCatalogResponse == [settled |-> "none", ok |-> FALSE, body |-> NoBody]
CatalogOutcomes(a) ==
    {CatalogRejected} \cup
    { [settled |-> "resolved", ok |-> ok, body |-> b] :
        ok \in BOOLEAN, b \in CatalogBodies(a) }

Threw(error) == [outcome |-> "threw", error |-> error, value |-> EmptyList]
Return(value) == [outcome |-> "returned", error |-> "none", value |-> value]

\* Client.models.list after its fetch: it throws on a rejected fetch, on a
\* response that is not ok and on a body that is not JSON; otherwise it
\* returns data.data || data.
ClientList(r) ==
    IF r.settled = "rejected" THEN Threw("NetworkError")
    ELSE IF ~r.ok THEN Threw("UpstreamStatus")
    ELSE IF r.body.kind = "notjson" THEN Threw("SyntaxError")
    ELSE IF r.body.kind = "wrapped" THEN Return([kind |-> "array", items |-> r.body.items])
    ELSE Return(r.body)

IsLive(record) == record.live

\* HuggingFace.models.list after its fetch: the records with a live
\* conversational provider, then one descriptor per key of providerMapping.
\* keys is Object.keys(this.providerMapping), in order.
HuggingFaceList(r, keys) ==
    IF r.settled = "rejected" THEN Threw("NetworkError")
    ELSE IF ~r.ok THEN Threw("UpstreamStatus")
    ELSE IF r.body.kind = "notjson" THEN Threw("SyntaxError")
    ELSE IF r.body.kind # "array" THEN Threw("TypeError")
    ELSE Return([kind |-> "array",
                 items |-> SelectSeq(r.body.items, IsLive)
                           \o [i \in DOMAIN keys |-> Descriptor(keys[i], "chat")]])

PuterBlockList == {"abuse", "costly", "fake", "model-fallback-test-1"}

\* model.includes("/")
IncludesSlash(id) == id \in {Llama3B.id, Mistral1.id, Mistral2.id, QwQ.id}

PuterKeeps(record) == ~IncludesSlash(record.id) /\ record.id \notin PuterBlockList

\* Puter.models.list after its fetch: response.ok is not looked at; json()
\* throws on a body that is not JSON, models.filter on a body without models.
PuterList(r) ==
    IF r.settled = "rejected" THEN Threw("NetworkError")
    ELSE IF r.body.kind = "notjson" THEN Threw("SyntaxError")
    ELSE IF r.body.kind # "wrapped" THEN Threw("TypeError")
    ELSE LET kept == SelectSeq(r.body.items, PuterKeeps)
         IN  Return([kind |-> "array",
                     items |-> [i \in DOMAIN kept |-> Descriptor(kept[i].id, "chat")]])

\* A config entry: { stop: model.config.stop || [], ... }, or {} for a record
\* without config.
ModelConfig(stop) == [hasStop |-> TRUE, stop |-> stop]
EmptyConfig == [hasStop |-> FALSE, stop |-> <<>>]

\* The for loop of _loadModels: one entry per record that has an id.
buildConfigs(items) ==
    LET withId == { i \in DOMAIN items : items[i].id # "" }
        \* a later record with the same id overwrites an earlier one
        last(id) == CHOOSE i \in withId :
                        /\ items[i].id = id
                        /\ \A j \in withId : items[j].id = id => j <= i
    IN  [id \in { items[i].id : i \in withId } |->
            IF items[last(id)].hasConfig THEN ModelConfig(items[last(id)].stop)
            ELSE EmptyConfig]

NoConfigs == [id \in {} |-> EmptyConfig]

\* Together._loadModels after its fetch.  A rejected fetch, a response that is
\* not ok and a body that is not JSON throw inside the try: the catch returns
\* this._cachedModels.  Otherwise the body becomes the cache and the configs
\* are rebuilt; on a body that is no array the for loop throws after both
\* assignments, and the catch returns the new cache.
loadModels(r, cached, configs) ==
    IF r.settled = "rejected" \/ ~r.ok \/ r.body.kind = "notjson"
    THEN [result |-> Return(cached), cached |-> cached, configs |-> configs]
    ELSE IF r.body.kind # "array"
    THEN [result |-> Return(r.body), cached |-> r.body, configs |-> NoConfigs]
    ELSE [result |-> Return(r.body), cached |-> r.body,
          configs |-> buildConfigs(r.body.items)]

\* this._cachedModels.length > 0 (the length of what is no array is undefined,
\* and undefined > 0 is false).
CacheFilled(cached) == cached.kind = "array" /\ Len(cached.items) > 0

\* _loadModels up to its first await: the cache if it is filled; otherwise
\* this.getApiKey() is called, which throws a TypeError into the catch when
\* the instance has no such method (Together and Client define none).
loadModelsStart(cached, key) ==
    IF CacheFilled(cached) THEN "cached"
    ELSE IF key = "undefined" THEN "caught"
    ELSE "authenticate"

\* !this._cachedModels.length < 1: the negation binds first, so a boolean is
\* compared with 1; true counts as 1, false as 0.
LoadGuard(cached) ==
    LET notLength == ~CacheFilled(cached)
        asNumber == IF notLength THEN 1 ELSE 0
    IN  asNumber < 1

\* this._modelConfigs[model] || {}
getModelConfig(configs, model) ==
    IF model \in DOMAIN configs THEN configs[model] ELSE EmptyConfig

\* params.stop: absent, or an array (an empty array is truthy).
NoStop == [given |-> FALSE, list |-> <<>>]
Stop(list) == [given |-> TRUE, list |-> list]
NoParams == [model |-> Absent, stop |-> NoStop]
ChatParams ==
    { [model |-> m, stop |-> st] :
        m \in {Absent, "llama-3.2-3b", "mistral-7b", "Qwen/QwQ-32B"},
        st \in {NoStop, Stop(<<>>), Stop(<<"END">>)} }

\* A chat body whose stop is always taken from the config.
chatBodyConfigWins(params, configs, random) ==
    LET model == getModel(params.model, TogetherDefaultModel, random)
        modelConfig == getModelConfig(configs, model)
    IN  [model |-> model,
         stop |-> IF modelConfig.hasStop /\ Len(modelConfig.stop) > 0
                  THEN Stop(modelConfig.stop) ELSE params.stop]

\* The params Together's create sends: the model resolved, and the stop list of
\* the resolved model's config when the caller gave none and that list is not
\* empty.
chatBody(params, configs, random) ==
    LET model == getModel(params.model, TogetherDefaultModel, random)
        modelConfig == getModelConfig(configs, model)
    IN  [model |-> model,
         stop |-> IF ~params.stop.given /\ modelConfig.hasStop /\ Len(modelConfig.stop) > 0
                  THEN Stop(modelConfig.stop) ELSE params.stop]

\* What models.list has fetched so far: the catalog of its last successful
\* fetch, and whether the fetch of the last call failed.
NotListed == [has |-> FALSE, value |-> EmptyList, failed |-> FALSE]

AfterFetch(r, result, before) ==
    IF r.settled = "resolved" /\ r.ok /\ r.body.kind # "notjson" /\ result.outcome = "returned"
    THEN [has |-> TRUE, value |-> result.value, failed |-> FALSE]
    ELSE [before EXCEPT !.failed = TRUE]

\* No operation: kind is "list", "chat" or "image" once one has started.  uncached and
\* prior record the instance at the start of the operation: whether the
\* Together catalog was empty, and the catalog listed before.
IdleOp ==
    [kind |-> "none", pc |-> "idle", uncached |-> FALSE, prior |-> NotListed,
     response |-> NoCatalogResponse, result |-> Return(EmptyList),
     params |-> NoParams, random |-> 0, body |-> NoParams]

StartOp(kind, params, random) ==
    [IdleOp EXCEPT !.kind = kind, !.uncached = ~CacheFilled(cachedModels),
                   !.prior = listed, !.params = params, !.random = random]

OpIdle == op.pc \in {"idle", "done"}

\* The chat request is issued: fetch(this.apiEndpoint, requestOptions).
Post(o, configs, log) ==
    /\ op' = [o EXCEPT !.pc = "posting", !.body = chatBody(o.params, configs, o.random)]
    /\ sent' = Append(log, PostChat)

\* models.list is called.
ListCall ==
    /\ OpIdle
    /\ LET o == StartOp("list", NoParams, 0)
       IN  IF adapter # "Together"
           THEN /\ op' = [o EXCEPT !.pc = "fetching"]
                /\ sent' = <<GetModels>>
           ELSE CASE loadModelsStart(cachedModels, getApiKey) = "authenticate" ->
                       /\ op' = [o EXCEPT !.pc = "authenticating"]
                       /\ sent' = <<>>
                  [] OTHER ->
                       /\ op' = [o EXCEPT !.pc = "done", !.result = Return(cachedModels)]
                       /\ sent' = <<>>
    /\ UNCHANGED <<adapter, getApiKey, cachedModels, modelConfigs, listed>>
    /\ UNCHANGED notCatalogVars

\* Together's chat.completions.create is called.
ChatCall(params, random) ==
    /\ adapter = "Together"
    /\ OpIdle
    /\ LET o == StartOp("chat", params, random)
       IN  IF /\ LoadGuard(cachedModels)
              /\ loadModelsStart(cachedModels, getApiKey) = "authenticate"
           THEN /\ op' = [o EXCEPT !.pc = "authenticating"]
                /\ sent' = <<>>
           ELSE Post(o, modelConfigs, <<>>)
    /\ UNCHANGED <<adapter, getApiKey, cachedModels, modelConfigs, listed>>
    /\ UNCHANGED notCatalogVars

\* this.defaulImageModel of a Together instance: the Client constructor reads
\* options.defaultImageModel, which Together's constructor does not pass (it
\* passes defaulImageModel), so the fallback 'flux' stays.
TogetherImageDefault == "flux"

PostImage == "POST image"

ImageModels == {Absent, "flux-pro", "black-forest-labs/FLUX.1-dev"}

\* this._cachedModels.length < 1 (undefined < 1 is false).
ImageLoadGuard(cached) == cached.kind = "array" /\ Len(cached.items) < 1

\* Together's images.generate is called.  With an empty catalog cache it calls
\* this.loadModels(), a method no class defines (the loader is _loadModels):
\* the TypeError rejects the call.  Otherwise the model is resolved and
\* _regularImageGeneration issues the POST.
ImageCall(model, random) ==
    /\ adapter = "Together"
    /\ OpIdle
    /\ LET o == StartOp("image", [model |-> model, stop |-> NoStop], random)
       IN  IF ImageLoadGuard(cachedModels)
           THEN /\ op' = [o EXCEPT !.pc = "done", !.result = Threw("TypeError")]
                /\ sent' = <<>>
           ELSE /\ op' = [o EXCEPT !.pc = "posting",
                                   !.body = [model |-> getModel(model, TogetherImageDefault,
                                                                random),
                                             stop |-> NoStop]]
                /\ sent' = <<PostImage>>
    /\ UNCHANGED <<adapter, getApiKey, cachedModels, modelConfigs, listed>>
    /\ UNCHANGED notCatalogVars

\* await this.getApiKey() resolves (where a subclass defines the method): the
\* catalog is requested.
ApiKeySettles ==
    /\ op.pc = "authenticating"
    /\ op' = [op EXCEPT !.pc = "fetching"]
    /\ sent' = Append(sent, GetModels)
    /\ UNCHANGED <<adapter, getApiKey, cachedModels, modelConfigs, listed>>
    /\ UNCHANGED notCatalogVars

\* What models.list does with the response r of its fetch.
ListOf(r) ==
    CASE adapter = "Puter" -> PuterList(r)
      [] adapter = "HuggingFace" -> HuggingFaceList(r, MappingKeys(providerMapping))
      [] OTHER -> ClientList(r)

\* The fetch of the models endpoint settles with r.
CatalogSettles(r) ==
    /\ op.pc = "fetching"
    /\ IF adapter = "Together"
       THEN LET load == loadModels(r, cachedModels, modelConfigs)
            IN  /\ cachedModels' = load.cached
                /\ modelConfigs' = load.configs
                /\ IF op.kind = "chat"
                   THEN /\ Post([op EXCEPT !.response = r], load.configs, sent)
                        /\ UNCHANGED listed
                   ELSE /\ op' = [op EXCEPT !.pc = "done", !.response = r,
                                            !.result = load.result]
                        /\ listed' = AfterFetch(r, load.result, listed)
                        /\ UNCHANGED sent
       ELSE /\ op' = [op EXCEPT !.pc = "done", !.response = r, !.result = ListOf(r)]
            /\ listed' = AfterFetch(r, ListOf(r), listed)
            /\ UNCHANGED <<cachedModels, modelConfigs, sent>>
    /\ UNCHANGED <<adapter, getApiKey>>
    /\ UNCHANGED notCatalogVars

\* The chat request settles; create returns the completion (or the stream), or
\* _regularCompletion throws on a response that is not ok.  The image request
\* settles likewise (_regularImageGeneration).
ChatSettles(ok) ==
    /\ op.pc = "posting"
    /\ op' = [op EXCEPT !.pc = "done",
                        !.result = IF ok THEN Return(EmptyList) ELSE Threw("UpstreamStatus")]
    /\ UNCHANGED <<adapter, getApiKey, cachedModels, modelConfigs, sent, listed>>
    /\ UNCHANGED notCatalogVars

\* An adapter has been constructed.  The classes define no getApiKey; a
\* subclass of Together may.
CatalogConstructed ==
    /\ adapter \in Adapters
    /\ getApiKey \in {"undefined", "function"}
    /\ adapter # "Together" => getApiKey = "undefined"
    /\ cachedModels = EmptyList
    /\ modelConfigs = NoConfigs
    /\ op = IdleOp
    /\ sent = <<>>
    /\ listed = NotListed

\* No adapter is in use.
CatalogParked ==
    /\ adapter = "Client"
    /\ getApiKey = "undefined"
    /\ cachedModels = EmptyList
    /\ modelConfigs = NoConfigs
    /\ op = IdleOp
    /\ sent = <<>>
    /\ listed = NotListed

NextCatalog ==
    \/ ListCall
    \/ \E params \in ChatParams, random \in {0, 4, 9} : ChatCall(params, random)
    \/ \E model \in ImageModels, random \in {0, 4, 9} : ImageCall(model, random)
    \/ ApiKeySettles
    \/ \E r \in CatalogOutcomes(adapter) : CatalogSettles(r)
    \/ \E ok \in BOOLEAN : ChatSettles(ok)

(***************************************************************************)
(* Client: the alias and swap tables of the constructor, and the requests  *)
(* chat.completions.create and images.generate of the base class issue     *)
(***************************************************************************)
\* A string is the sequence of the pieces it is made of (Text(<<>>) is the
\* empty string, and stands for undefined and null as well: all falsy).  A
\* value of a params object is a string or an array of strings.
Text(pieces) == [isArray |-> FALSE, ids |-> pieces]
Falsy == Text(<<>>)

\* An array, the empty one included, is truthy; a string is unless empty.
IsTruthy(value) == value.isArray \/ value.ids # <<>>

\* An object: its <<key, value>> pairs in the order of its keys.
ObjHas(obj, key) == \E i \in DOMAIN obj : obj[i][1] = key

\* obj[key], absent standing for what a missing key gives.
ObjGet(obj, key, absent) ==
    IF ObjHas(obj, key) THEN obj[CHOOSE i \in DOMAIN obj : obj[i][1] = key][2] ELSE absent

\* obj[key] = value: an existing key keeps its place, a new one comes last.
ObjSet(obj, key, value) ==
    IF ObjHas(obj, key)
    THEN [i \in DOMAIN obj |-> IF obj[i][1] = key THEN <<key, value>> ELSE obj[i]]
    ELSE Append(obj, <<key, value>>)

\* delete obj[key]
ObjDelete(obj, key) ==
    LET keeps(pair) == pair[1] # key
    IN  SelectSeq(obj, keeps)

RECURSIVE Join(_, _)
\* Array.prototype.join, which is also what String(array) and a property key
\* made of an array give (separator ",").
Join(ids, separator) ==
    IF ids = <<>> THEN <<>>
    ELSE IF Len(ids) = 1 THEN <<ids[1]>>
    ELSE <<ids[1], separator>> \o Join(Tail(ids), separator)

\* String(value)
StringOf(value) == IF value.isArray THEN Join(value.ids, ",") ELSE value.ids

\* The alias tables an adapter is configured with, as <<name, entry>> pairs in
\* key order: none; entries of one id, two names sharing an id (as in
\* HuggingFace's table); entries with arrays of ids, one id in two entries (as
\* in Together's table).
AliasTables ==
    { <<>>,
      << <<"llama-3", One("meta-llama/Llama-3.3-70B-Instruct")>>,
         <<"llama-3.3-70b", One("meta-llama/Llama-3.3-70B-Instruct")>>,
         <<"gpt-4o-mini", One("openai")>> >>,
      << <<"flux-pro", Many(<<"black-forest-labs/FLUX.1.1-pro",
                              "black-forest-labs/FLUX.1-pro">>)>>,
         <<"flux-dev-lora", One("black-forest-labs/FLUX.1-dev-lora")>>,
         <<"flux-dev", Many(<<"black-forest-labs/FLUX.1-dev",
                              "black-forest-labs/FLUX.1-dev-lora">>)>> >> }

\* this.modelAliases[name]
AliasOf(aliases, name) == ObjGet(aliases, name, NoEntry)

RECURSIVE SwapFrom(_, _)
\* The forEach of the constructor over Object.keys(this.modelAliases):
\* this.swapAliases[this.modelAliases[key]] = key.  The property key is the
\* entry converted to a string: an array becomes its members joined by ",".
SwapFrom(aliases, swap) ==
    IF aliases = <<>> THEN swap
    ELSE SwapFrom(Tail(aliases),
                  ObjSet(swap, StringOf(Head(aliases)[2]), Head(aliases)[1]))

buildSwap(aliases) == SwapFrom(aliases, <<>>)

\* this.swapAliases[physical], "" standing for undefined.
swapOf(swap, physical) == ObjGet(swap, <<physical>>, Absent)

\* The settings of a Client: modelAliases, defaultModel (null unless given),
\* defaulImageModel, whether imageEndpoint contains {prompt}, and referrer.
ClientSettings ==
    [aliases : AliasTables,
     defaultModel : {Falsy, Text(<<"gpt-oss">>)},
     defaulImageModel : {Text(<<"flux">>)},
     template : BOOLEAN,
     referrer : {Falsy, Text(<<"https://g4f.dev">>)}]

\* modelId = params.model || fallback; the alias entry, when there is a truthy
\* one, replaces it as it is, string or array.
resolveModel(aliases, params, fallback) ==
    LET asked == ObjGet(params, "model", Falsy)
        modelId == IF IsTruthy(asked) THEN asked ELSE fallback
        entry == AliasOf(aliases, StringOf(modelId)[1])
    IN  IF modelId.ids # <<>> /\ IsTruthy(entry) THEN entry ELSE modelId

\* encodeURIComponent on the characters the prompts are made of.
encodeChar(char) ==
    CASE char = " " -> "%20"
      [] char = "+" -> "%2B"
      [] char = "/" -> "%2F"
      [] OTHER -> char

encodeChars(chars) == [i \in DOMAIN chars |-> encodeChar(chars[i])]

\* replaceAll on an encoded string, whose pieces are the escapes and the
\* characters left as they are.
replaceAll(pieces, from, to) ==
    [i \in DOMAIN pieces |-> IF pieces[i] = from THEN to ELSE pieces[i]]

\* "WxH".split('x'), on the pieces of the string.
RECURSIVE SplitOn(_, _, _, _)
SplitOn(pieces, separator, current, out) ==
    IF pieces = <<>> THEN Append(out, current)
    ELSE IF Head(pieces) = separator
    THEN SplitOn(Tail(pieces), separator, <<>>, Append(out, current))
    ELSE SplitOn(Tail(pieces), separator, Append(current, Head(pieces)), out)

\* halves[n] of a split, "undefined" where the split has no such part (which is
\* what the query string then shows).
PartOf(halves, n) == IF n <= Len(halves) THEN Text(halves[n]) ELSE Text(<<"undefined">>)

\* new URLSearchParams(params): every key with its value as a string.
URLSearchParams(params) ==
    [i \in DOMAIN params |-> <<params[i][1], StringOf(params[i][2])>>]

\* A size handling that adds width and height and leaves size where it is.
foldSizeKeepsSize(params) ==
    IF IsTruthy(ObjGet(params, "size", Falsy))
    THEN LET halves == SplitOn(ObjGet(params, "size", Falsy).ids, "x", <<>>, <<>>)
         IN  ObjSet(ObjSet(params, "width", PartOf(halves, 1)), "height", PartOf(halves, 2))
    ELSE params

\* The size handling of _defaultImageGeneration.
foldSize(params) ==
    IF IsTruthy(ObjGet(params, "size", Falsy))
    THEN LET halves == SplitOn(ObjGet(params, "size", Falsy).ids, "x", <<>>, <<>>)
         IN  ObjDelete(ObjSet(ObjSet(params, "width", PartOf(halves, 1)),
                              "height", PartOf(halves, 2)),
                       "size")
    ELSE params

\* _defaultImageGeneration up to its fetch, on its own copy of params: the
\* path the prompt goes into and the query string.
defaultImageGeneration(params, referrer) ==
    LET asked == ObjGet(params, "prompt", Falsy)
        prompt == replaceAll(encodeChars(IF IsTruthy(asked) THEN StringOf(asked) ELSE <<>>),
                             "%20", "+")
        noPrompt == ObjDelete(params, "prompt")
        withLogo == IF ObjHas(noPrompt, "nologo") THEN noPrompt
                    ELSE ObjSet(noPrompt, "nologo", Text(<<"true">>))
        withReferrer == IF IsTruthy(referrer) THEN ObjSet(withLogo, "referrer", referrer)
                        ELSE withLogo
    IN  [path |-> prompt, query |-> URLSearchParams(foldSize(withReferrer))]

\* The params objects callers pass to images.generate: each key present or
\* not; a prompt with a space, with a plus sign and a slash, or empty; a size
\* WxH or empty.
Pairs(key, values) == {<<>>} \cup { << <<key, v>> >> : v \in values }

ImageParams ==
    { model \o prompt \o size \o seed \o nologo :
        model \in Pairs("model", {Text(<<"flux-pro">>), Text(<<"dall-e">>)}),
        prompt \in Pairs("prompt", {Text(<<"a", " ", "c">>), Text(<<"+", "/">>)}),
        size \in Pairs("size", {Text(<<"512", "x", "256">>), Falsy}),
        seed \in Pairs("seed", {Text(<<"7">>)}),
        nologo \in Pairs("nologo", {Text(<<"false">>)}) }

ChatModels == Pairs("model", {Text(<<"flux-pro">>), Text(<<"gpt-4o-mini">>), Text(<<"o3">>)})

\* No request: kind is "chat" or "image" once one was issued.  given is the
\* params object as the caller passed it, sent what went upstream: the body of
\* a POST, or the path and the query string of a GET.
NoRequest ==
    [pc |-> "idle", kind |-> "none", method |-> "none", given |-> <<>>,
     body |-> <<>>, path |-> <<>>, query |-> <<>>]

\* chat.completions.create up to its fetch: the model is resolved and written
\* into the caller's params, with the referrer when there is one; the params
\* are the body.
CreateCall(params) ==
    /\ issued.pc # "inflight"
    /\ LET modelId == resolveModel(settings.aliases, params, settings.defaultModel)
           withModel == ObjSet(params, "model", modelId)
           body == IF IsTruthy(settings.referrer)
                   THEN ObjSet(withModel, "referrer", settings.referrer) ELSE withModel
       IN  /\ callerParams' = body
           /\ issued' = [NoRequest EXCEPT !.pc = "inflight", !.kind = "chat",
                                          !.method = "POST", !.given = params,
                                          !.body = body]
    /\ UNCHANGED <<settings, swapTable>>
    /\ UNCHANGED notRequestVars

\* images.generate up to its fetch: the model is resolved and written into the
\* caller's params; a template endpoint takes the GET of
\* _defaultImageGeneration, any other the POST of _regularImageGeneration.
GenerateCall(params) ==
    /\ issued.pc # "inflight"
    /\ LET modelId == resolveModel(settings.aliases, params, settings.defaulImageModel)
           withModel == ObjSet(params, "model", modelId)
           get == defaultImageGeneration(withModel, settings.referrer)
       IN  /\ callerParams' = withModel
           /\ issued' = IF settings.template
                        THEN [NoRequest EXCEPT !.pc = "inflight", !.kind = "image",
                                               !.method = "GET", !.given = params,
                                               !.path = get.path, !.query = get.query]
                        ELSE [NoRequest EXCEPT !.pc = "inflight", !.kind = "image",
                                               !.method = "POST", !.given = params,
                                               !.body = withModel]
    /\ UNCHANGED <<settings, swapTable>>
    /\ UNCHANGED notRequestVars

\* The fetch of the request settles.
RequestSettles ==
    /\ issued.pc = "inflight"
    /\ issued' = [issued EXCEPT !.pc = "done"]
    /\ UNCHANGED <<settings, swapTable, callerParams>>
    /\ UNCHANGED notRequestVars

\* A Client has been constructed with some settings.
RequestConstructed ==
    /\ settings \in ClientSettings
    /\ swapTable = buildSwap(settings.aliases)
    /\ callerParams = <<>>
    /\ issued = NoRequest

\* No Client is in use.
RequestParked ==
    /\ settings = [aliases |-> <<>>, defaultModel |-> Falsy,
                   defaulImageModel |-> Text(<<"flux">>), template |-> FALSE,
                   referrer |-> Falsy]
    /\ swapTable = <<>>
    /\ callerParams = <<>>
    /\ issued = NoRequest

NextRequest ==
    \/ \E params \in ChatModels : CreateCall(params)
    \/ \E params \in ImageParams : GenerateCall(params)
    \/ RequestSettles

(***************************************************************************)
(* bot.js: the messageCreate handler and the session of one user           *)
(*                                                                         *)
(* usersData holds one object per user and a command only touches the      *)
(* object of its author, so the session of one user is modelled.  A        *)
(* handler runs to its next await; what it does after the await is a step  *)
(* of its own, taken when the awaited promise settles, in any order.       *)
(***************************************************************************)
MaxAwaiting == 2    \* handlers suspended at an await at a time
MaxAsks == 2        \* !ask commands that get past the guard, per run

\* PROVIDERS: the names the bot accepts.
PROVIDERS == {"pollinations", "deepinfra", "huggingface", "together", "puter", "azure"}

\* API_KEY is "", so every provider is constructed with {}.
API_KEY == Falsy

\* new PROVIDERS[prov]({}): Client and Together throw without baseUrl,
\* apiEndpoint and apiKey (no localStorage under node: a ReferenceError);
\* HuggingFace throws unless the environment holds HUGGINGFACE_API_KEY;
\* PollinationsAI and DeepInfra pass their baseUrl; Puter has no test.
constructs(prov, envKey) ==
    CASE prov \in {"azure", "together"} -> IsTruthy(API_KEY)
      [] prov = "huggingface" -> IsTruthy(API_KEY) \/ envKey
      [] OTHER -> TRUE

\* What client.models.list() may resolve with, as the ids of its models, by
\* the provider of the client.  PollinationsAI: the fetched catalog or the
\* static fallback.  The catalogs of different providers share no id here.
ListResults(prov) ==
    CASE prov = "pollinations" -> {<<"openai", "flux">>,
                                   <<"gpt-4.1-mini", "deepseek-v3", "flux", "gpt-image">>}
      [] prov = "deepinfra" -> {<<"deepseek-ai/DeepSeek-V3-0324">>}
      [] prov = "puter" -> {<<"gpt-4.1">>}
      [] prov = "huggingface" -> {<<"meta-llama/Meta-Llama-3-8B-Instruct">>}
      [] OTHER -> {}

\* Whether client.models.list() may reject: PollinationsAI catches every
\* failure and returns the fallback; the others let a failed fetch through.
ListMayReject(prov) == prov # "pollinations"

\* userData.models: the ids listed, and the provider whose client listed them.
Models(prov, ids) == [by |-> prov, ids |-> ids]
NoModels == Models(Absent, <<>>)

\* usersData.get(userId) || {}: the stored object, or a new empty one.
NewUserData ==
    [stored |-> FALSE, provider |-> Absent, model |-> Absent, client |-> Absent,
     models |-> NoModels, history |-> <<>>]

Message(role) == [role |-> role]

\* The words a user puts after !provider and !model: one provider of each
\* kind of constructor and listing (together behaves as azure here, puter
\* as deepinfra), no word, and a word that names nothing.
ProviderWords == {"pollinations", "deepinfra", "huggingface", "azure", Absent, "openai"}
ModelWords == {Absent, "openai", "deepseek-ai/DeepSeek-V3-0324", "gpt-4"}

AsksInFlight == { i \in DOMAIN awaiting : awaiting[i].at \in {"reply", "stream"} }
Without(handlers, i) == SubSeq(handlers, 1, i - 1) \o SubSeq(handlers, i + 1, Len(handlers))

\* !provider <prov>, up to the await of line 56.  An unknown name is
\* answered and changes nothing.  Otherwise provider and model are written
\* into the user's object first; a constructor that throws ends the handler
\* there, before the client is replaced and before a new object is stored.
ProviderCmd(prov, envKey) ==
    /\ Len(awaiting) < MaxAwaiting
    /\ IF prov = Absent \/ prov \notin PROVIDERS
       THEN UNCHANGED botVars
       ELSE LET userData == [usersData EXCEPT !.provider = prov, !.model = Absent]
            IN  IF ~constructs(prov, envKey)
                THEN /\ usersData' = IF usersData.stored THEN userData ELSE usersData
                     /\ UNCHANGED <<awaiting, chat>>
                ELSE /\ usersData' = [userData EXCEPT !.client = prov, !.stored = TRUE]
                     /\ awaiting' = Append(awaiting, [at |-> "list", client |-> prov])
                     /\ UNCHANGED chat
    /\ UNCHANGED notBotVars

\* The await of line 56 settles: the listing is stored in the user's object,
\* whatever its provider is by now; a rejection stores nothing.
ListingSettles(i, ok, ids) ==
    /\ i \in DOMAIN awaiting
    /\ awaiting[i].at = "list"
    /\ IF ok
       THEN /\ ids \in ListResults(awaiting[i].client)
            /\ usersData' = [usersData EXCEPT !.models = Models(awaiting[i].client, ids)]
       ELSE /\ ListMayReject(awaiting[i].client)
            /\ ids = <<>>
            /\ UNCHANGED usersData
    /\ awaiting' = Without(awaiting, i)
    /\ UNCHANGED chat
    /\ UNCHANGED notBotVars

\* userData.models?.find(m => m.id === modelName)
found(models_, modelName) == \E k \in DOMAIN models_.ids : models_.ids[k] = modelName

\* !model <name>: needs a stored object with a provider, a name, and the
\* name among the ids of userData.models.
ModelCmd(modelName) ==
    /\ IF ~usersData.stored \/ usersData.provider = Absent \/ modelName = Absent
          \/ ~found(usersData.models, modelName)
       THEN UNCHANGED usersData
       ELSE usersData' = [usersData EXCEPT !.model = modelName]
    /\ UNCHANGED <<awaiting, chat>>
    /\ UNCHANGED notBotVars

\* !ask <prompt>, up to the await of line 101: behind the guard of line 91
\* the prompt is pushed onto the history.
AskCmd(prompt) ==
    /\ Len(awaiting) < MaxAwaiting
    /\ Len(SelectSeq(usersData.history, LAMBDA m : m.role = "user")) < MaxAsks
    /\ IF ~usersData.stored \/ usersData.provider = Absent \/ usersData.model = Absent
          \/ usersData.client = Absent \/ prompt = Absent
       THEN UNCHANGED botVars
       ELSE /\ usersData' = [usersData EXCEPT !.history = Append(@, Message("user"))]
            /\ awaiting' = Append(awaiting, [at |-> "reply", client |-> Absent])
            /\ UNCHANGED chat
    /\ UNCHANGED notBotVars

\* message.reply of line 101 resolves: the chat request is made with the
\* client and the model the user's object holds now.  create resolves
\* with a stream, or rejects and the catch ends the handler.
AskReplied(i, ok) ==
    /\ i \in DOMAIN awaiting
    /\ awaiting[i].at = "reply"
    /\ chat' = [n |-> chat.n + 1, provider |-> usersData.provider,
                 model |-> usersData.model, client |-> usersData.client]
    /\ awaiting' = IF ok THEN [awaiting EXCEPT ![i].at = "stream"]
                         ELSE Without(awaiting, i)
    /\ UNCHANGED usersData
    /\ UNCHANGED notBotVars

\* message.reply of line 101 rejects: it is outside the try, the handler ends.
AskReplyFails(i) ==
    /\ i \in DOMAIN awaiting
    /\ awaiting[i].at = "reply"
    /\ awaiting' = Without(awaiting, i)
    /\ UNCHANGED <<usersData, chat>>
    /\ UNCHANGED notBotVars

\* The for await of line 111 ends: the answer is pushed onto the history;
\* when the stream throws the catch pushes nothing.
StreamSettles(i, ok) ==
    /\ i \in DOMAIN awaiting
    /\ awaiting[i].at = "stream"
    /\ usersData' = IF ok THEN [usersData EXCEPT !.history = Append(@, Message("assistant"))]
                          ELSE usersData
    /\ awaiting' = Without(awaiting, i)
    /\ UNCHANGED chat
    /\ UNCHANGED notBotVars

\* No chat request has been made.
NoChat == [n |-> 0, provider |-> Absent, model |-> Absent, client |-> Absent]

\* The bot has started: usersData is an empty Map.
BotStarted ==
    /\ usersData = NewUserData
    /\ awaiting = <<>>
    /\ chat = NoChat

BotParked == BotStarted

NextBot ==
    \/ \E prov \in ProviderWords, envKey \in BOOLEAN : ProviderCmd(prov, envKey)
    \/ \E i \in 1 .. MaxAwaiting, ok \in BOOLEAN :
          \E ids \in {<<>>} \cup UNION { ListResults(p) : p \in PROVIDERS } :
             ListingSettles(i, ok, ids)
    \/ \E modelName \in ModelWords : ModelCmd(modelName)
    \/ \E prompt \in {Absent, "hi"} : AskCmd(prompt)
    \/ \E i \in 1 .. MaxAwaiting, ok \in BOOLEAN : AskReplied(i, ok)
    \/ \E i \in 1 .. MaxAwaiting : AskReplyFails(i)
    \/ \E i \in 1 .. MaxAwaiting, ok \in BOOLEAN : StreamSettles(i, ok)

InitProxy ==
    ProxyConstructed /\ ParkedStream /\ AliasParked /\ CatalogParked /\ RouteParked
    /\ RequestParked /\ BotParked

SpecProxy == InitProxy /\ [][NextProxy]_vars

\* Every fetch in flight settles: it resolves or it rejects.
FairProxy ==
    SpecProxy /\ \A id \in CallIds :
                    WF_vars(\E r \in Outcomes(call[id].target) : FetchSettles(id, r))

(***************************************************************************)
(* Properties of the failover fetcher and of the aggregator's listing      *)
(***************************************************************************)
\* The number of fetches an invocation has issued.
Attempts(c) == Len(c.used)

AttemptsBounded ==
    \A id \in CallIds :
        LET c == call[id]
        IN  /\ Attempts(c) <= c.maxAttempts
            /\ c.pc = "fetching" => Attempts(c) = c.fails + 1 /\ c.fails < c.maxAttempts
            /\ c.pc = "returned" => Accepts(c.response) /\ Attempts(c) = c.fails + 1
            /\ c.pc = "exhausted" <=> (c.pc # "idle" /\ c.fails = c.maxAttempts)
            /\ c.pc # "idle" => c.maxAttempts = Len(proxies)

\* C1: an invocation of _fetchWithProxyRotation on a list of N proxies issues at
\* most N fetches, returns the response of its first accepted attempt (every
\* attempt before it failed and none follows it), throws exactly when N
\* attempts failed, and, every fetch settling, always finishes.
C1_AtMostNAttemptsAndTerminates ==
    /\ []AttemptsBounded
    /\ \A id \in CallIds : Running(id) ~> Finished(id)

\* A direct invocation returned from its third attempt on a list of three.
C1_Witness ==
    /\ call["direct"].pc = "returned"
    /\ call["direct"].fails = 2
    /\ Len(proxies) = 3

InOrder(c) ==
    /\ \A k \in DOMAIN c.used : c.used[k] = (c.c0 + (k - 1)) % Len(proxies)
    /\ \A j, k \in DOMAIN c.used : j # k => c.used[j] # c.used[k]
    /\ c.pc = "fetching" =>
          c.url = getProxiedUrl(proxies, c.used[Len(c.used)], c.target)

AloneInOrder ==
    /\ \A id \in CallIds :
          (call[id].pc # "idle" /\ ~call[id].disturbed) => InOrder(call[id])
    /\ call["direct"].pc # "idle" =>
          currentIndex = (call["direct"].c0 + call["direct"].fails) % Len(proxies)

\* An invocation starts in this step.
Starts(id) == call'[id].pc = "fetching" /\ call'[id].attempt = 0 /\ call[id] # call'[id]

NextStartsWhereLeft ==
    \A id \in CallIds :
        (Finished("direct") /\ Starts(id)) =>
            call'[id].used[1] =
                (call["direct"].c0 + call["direct"].fails) % Len(proxies)

\* C2: in an invocation no other invocation rotates under, attempt k uses the
\* proxy at (c0 + k) mod N, so no proxy is used twice; the cursor of an
\* invocation running alone is c0 plus its failed attempts (mod N), during and
\* after it, and the next invocation starts from there.
C2_AloneUsesProxiesInOrder ==
    /\ []AloneInOrder
    /\ [][NextStartsWhereLeft]_vars

\* A direct invocation that started at cursor 1 of three and failed on every
\* proxy: it used 1, 2, 0 and left the cursor at 1.
C2_Witness ==
    /\ call["direct"].pc = "exhausted"
    /\ call["direct"].used = <<1, 2, 0>>
    /\ currentIndex = 1

\* C3: each of the two concurrent catalog invocations of models.list uses, on
\* every retry, another proxy than on its own previous attempt, and throws only
\* after it has itself tried every proxy of the list.
C3_ConcurrentCallsRotateProperly ==
    \A id \in {"text", "image"} :
        LET c == call[id]
        IN  /\ \A k \in DOMAIN c.used : k > 1 => c.used[k] # c.used[k - 1]
            /\ c.pc = "exhausted" =>
                  { c.used[k] : k \in DOMAIN c.used } = 0..(Len(proxies) - 1)

BothCatalogsFailed ==
    /\ listPc = "done"
    /\ call["text"].pc = "exhausted"
    /\ call["image"].pc = "exhausted"

FallbackReturned ==
    BothCatalogsFailed =>
        /\ listVia = "fallback"
        /\ listResult = FallbackCatalog
        /\ models = <<>>

RefetchesAfterFallback ==
    BothCatalogsFailed =>
        /\ ~(listPc' = "done" /\ listVia' = "cache")
        /\ listPc' = "awaiting" => Starts("text") /\ Starts("image")

\* C10: when both catalog invocations fail on every proxy, models.list returns
\* the static fallback catalog instead of throwing, the cache stays empty, and
\* the next models.list call starts both catalog fetches again.
C10_BothFailFallbackNotCached ==
    /\ []FallbackReturned
    /\ [][RefetchesAfterFallback]_vars

\* models.list ended in the static catalog with both invocations exhausted on
\* a list of two proxies.
C10_Witness ==
    /\ BothCatalogsFailed
    /\ listResult = FallbackCatalog
    /\ Len(proxies) = 2

\* models.list has returned with one catalog invocation exhausted and the
\* other returned with a catalog (an array, bare or under data).
OneCatalogFailed ==
    /\ listPc = "done"
    /\ \/ /\ call["text"].pc = "exhausted"
          /\ call["image"].pc = "returned"
          /\ call["image"].response.body.kind = "array"
       \/ /\ call["image"].pc = "exhausted"
          /\ call["text"].pc = "returned"
          /\ call["text"].response.body.kind \in {"array", "wrapped"}

\* The tagged records of the catalog that arrived, nothing for the other half.
SurvivingRecords ==
    (IF call["text"].pc = "returned"
     THEN mapText(call["text"].response.body.items) ELSE <<>>)
    \o (IF call["image"].pc = "returned"
        THEN mapImage(call["image"].response.body.items) ELSE <<>>)

\* C11: when exactly one of the two catalog invocations fails on every proxy
\* and the other returns a catalog, models.list returns the tagged records of
\* the catalog that arrived (an empty half for the other), not the static
\* fallback catalog.
C11_OneCatalogFailsOtherIsListed ==
    OneCatalogFailed =>
        /\ listVia = "fetched"
        /\ listResult = SurvivingRecords

\* The response a failed attempt was given is not accepted, the response a
\* returning attempt was given is: ok, and a Content-Type that is absent or
\* contains application/json.
SuccessRange(response) == response.settled = "resolved" /\ response.ok
JsonOrAbsent(response) ==
    response.contentType \in {NoContentType, "application/json",
                              "application/json; charset=utf-8"}

\* What a step in which the fetch of invocation id settles with response r
\* does: it returns r, the cursor untouched, exactly when r is acceptable;
\* otherwise the cursor rotates once, the attempt counts as failed, and the
\* invocation goes on to its next attempt unless that was its N-th failure.
SettlesAsSpecified(id, r) ==
    IF SuccessRange(r) /\ JsonOrAbsent(r)
    THEN /\ call'[id].pc = "returned"
         /\ call'[id].response = r
         /\ currentIndex' = currentIndex
    ELSE /\ currentIndex' = (currentIndex + 1) % Len(proxies)
         /\ call'[id].fails = call[id].fails + 1
         /\ call'[id].pc = IF call'[id].fails = Len(proxies) THEN "exhausted" ELSE "fetching"
         /\ call'[id].pc = "fetching" =>
               call'[id].url = getProxiedUrl(proxies, currentIndex', call[id].target)

EverySettleAsSpecified ==
    \A id \in CallIds : \A r \in Outcomes(call[id].target) :
        FetchSettles(id, r) => SettlesAsSpecified(id, r)

StreamInit ==
    ProxyParked /\ InitStream /\ AliasParked /\ CatalogParked /\ RouteParked
    /\ RequestParked /\ BotParked

SpecStream == StreamInit /\ [][NextStream]_vars

\* C23: the cursor is always an index of the proxy list, the list is never
\* empty (the constructor throws on an empty list and on a value that is no
\* array), and no step adds, removes or reorders a proxy.
C23_CursorValidListFixed ==
    /\ [](Len(proxies) >= 1 /\ currentIndex \in 0 .. (Len(proxies) - 1))
    /\ [][proxies' = proxies]_vars

\* An invocation on three proxies failed three times: the cursor has wrapped
\* back to the first proxy.
C23_Witness ==
    /\ proxies = <<1, 2, 3>>
    /\ call["direct"].pc = "exhausted"
    /\ call["direct"].used = <<0, 1, 2>>
    /\ currentIndex = 0

(***************************************************************************)
(* Properties of the streaming decoder                                     *)
(***************************************************************************)
IsPrefix(a, b) == Len(a) <= Len(b) /\ SubSeq(b, 1, Len(a)) = a

RECURSIVE YieldAll(_)
\* Everything the for loop yields over todo.
YieldAll(todo) ==
    LET run == RunLoop(todo)
    IN  IF run.yields THEN <<run.value>> \o YieldAll(run.rest) ELSE <<>>

\* What the decoder yields when one read delivers the whole body.
DecodeWhole(bytes) ==
    LET decoded == decode(<<>>, bytes)
    IN  YieldAll(Front(split(decoded.text)))

Done == genPc = "completed" /\ genEnd = "done"

\* C4: however the body is cut into non-empty fragments, one per read, the
\* events yielded by the time the body ends are those of a single read of the
\* whole body, in the same order; until then they are a prefix of them.
C4_ChunkBoundaryIndependent ==
    /\ IsPrefix(events, DecodeWhole(wire))
    /\ Done => events = DecodeWhole(wire)

\* Two events came out of a body whose reads ended inside a line, one of them
\* decoded from a two-byte character.
C4_Witness ==
    /\ Done
    /\ cutInLine
    /\ events = <<JValue("number", <<"1">>), JValue("string", <<"e'">>)>>

\* C5: once getReader has been called, releaseLock is called exactly once on
\* every way out (the body ending, the consumer stopping at any element, a read
\* failing), and never while iteration goes on: no completed generator holds
\* the reader.
C5_ReaderReleasedExactlyOnce ==
    /\ acquired <= 1
    /\ released <= acquired
    /\ locked <=> (acquired = 1 /\ released = 0)
    /\ (genPc = "completed" /\ acquired = 1) => (released = 1 /\ ~locked)
    /\ genPc \in {"reading", "yielded"} => locked
    /\ genPc = "start" => acquired = 0

\* The consumer stopped at the first of two events of one chunk.
C5_Witness ==
    /\ genPc = "completed"
    /\ genEnd = "returned"
    /\ Len(events) = 1
    /\ parts # <<>>
    /\ released = 1

\* The text of a line of the body.
TextOf(line) == decode(<<>>, line).text

\* A data line, not the sentinel, whose payload JSON.parse rejects.
Malformed(text) ==
    /\ startsWith(text, DataPrefix)
    /\ text # DoneLine
    /\ JSONparse(slice(text, 6)).throws

LineTexts == [i \in DOMAIN lines |-> TextOf(lines[i])]

NotMalformed(text) == ~Malformed(text)

\* C6: a data line whose payload does not parse is skipped on its own: the
\* events are exactly those the other lines of the body yield without it, in
\* order, and the generator throws for nothing but a failed precondition or a
\* failed read.
C6_MalformedLineSkippedAlone ==
    /\ IsPrefix(events, YieldAll(SelectSeq(LineTexts, NotMalformed)))
    /\ Done => events = YieldAll(SelectSeq(LineTexts, NotMalformed))
    /\ genEnd = "threw" => err \in {"UpstreamStatus", "StreamUnsupported", "ReadError"}

\* A body of a malformed line, a well-formed one and a tail was decoded to its
\* end: the well-formed line after the malformed one was yielded.
C6_Witness ==
    /\ Done
    /\ lines = <<MalformedLine, OneLine>>
    /\ events = <<JValue("number", <<"1">>)>>

RECURSIVE ParsedPayloads(_)
\* The parsed payloads of the data lines that are not the sentinel, in order.
ParsedPayloads(texts) ==
    IF texts = <<>> THEN <<>>
    ELSE LET text == Head(texts)
             data == JSONparse(slice(text, 6))
         IN  (IF startsWith(text, DataPrefix) /\ text # DoneLine /\ ~data.throws
              THEN <<data.value>> ELSE <<>>) \o ParsedPayloads(Tail(texts))

\* C7: the events are, in the order of their lines, the parsed payloads of the
\* newline-terminated lines that start with "data: " and are not the sentinel,
\* one per line at most.
C7_EventsAreParsedPayloads ==
    /\ IsPrefix(events, ParsedPayloads(LineTexts))
    /\ Done => events = ParsedPayloads(LineTexts)

\* C8: the generator throws UpstreamStatus exactly on a response that is not
\* ok, and StreamUnsupported exactly on an ok response without a body; in both
\* cases no reader was taken, no read was issued, no byte was delivered and no
\* event was yielded.
C8_PreconditionsFailBeforeReading ==
    /\ err = "UpstreamStatus" <=> (genPc # "start" /\ ~streamResponse.ok)
    /\ err = "StreamUnsupported" <=>
          (genPc # "start" /\ streamResponse.ok /\ ~streamResponse.hasBody)
    /\ err \in {"UpstreamStatus", "StreamUnsupported"} =>
          /\ genPc = "completed" /\ genEnd = "threw"
          /\ acquired = 0 /\ ~locked /\ ~everRead
          /\ fed = 0 /\ events = <<>>

\* A response that is not ok and has no body either: the status decides.
C8_Witness ==
    /\ err = "UpstreamStatus"
    /\ ~streamResponse.hasBody
    /\ wire # <<>>

\* A step that issues a read where none was outstanding starts from a
\* suspended generator (the consumer's next() resumes it), hands nothing over
\* and leaves no decoded line behind; bytes arrive only at an outstanding
\* read; a step that hands an event over hands exactly one and suspends the
\* generator, no read outstanding.
ReadsOnlyOnDemand ==
    /\ (genPc # "reading" /\ genPc' = "reading") =>
          /\ genPc \in {"start", "yielded"}
          /\ events' = events
          /\ parts' = <<>>
    /\ fed' # fed => genPc = "reading"
    /\ events' # events =>
          /\ genPc' = "yielded"
          /\ Len(events') = Len(events) + 1

\* C18: the decoder is pull-driven.  A read is outstanding exactly while the
\* generator is in "reading", that is inside a next() of the consumer: none
\* before the first next(), none while a line of an earlier read waits to be
\* visited, none once an event has been handed over and the next one has not
\* been asked for; so never more than one.
C18_PullDriven ==
    /\ [](genPc = "start" => (~everRead /\ fed = 0 /\ events = <<>>))
    /\ [](genPc = "reading" => parts = <<>>)
    /\ [](genPc = "yielded" => events # <<>>)
    /\ [][ReadsOnlyOnDemand]_vars

\* The consumer holds the first event of a chunk of two and has not asked for
\* the second: the second line waits, no byte beyond the chunk was delivered.
C18_Witness ==
    /\ genPc = "yielded"
    /\ Len(events) = 1
    /\ YieldAll(parts) # <<>>
    /\ fed < Len(wire)

\* C19: when read() reports done the sequence ends, and the events are those
\* of the newline-terminated lines alone: what the buffer holds at that point,
\* the text after the last newline, a complete payload included, yields
\* nothing.
C19_UnterminatedTailYieldsNothing ==
    /\ IsPrefix(events, YieldAll(LineTexts))
    /\ Done => /\ events = YieldAll(LineTexts)
               /\ buffer = TextOf(tail)
               /\ parts = <<>>

\* The body "data: 1\ndata: 1" was read to its end: one event, the second
\* payload still in the buffer.
C19_Witness ==
    /\ Done
    /\ lines = <<OneLine>>
    /\ tail = OneLine
    /\ events = <<JValue("number", <<"1">>)>>
    /\ buffer = OneLine

NotSentinel(text) == text # DoneLine

RECURSIVE EachLine(_)
\* What the lines yield, each visited on its own, in order.
EachLine(texts) ==
    IF texts = <<>> THEN <<>>
    ELSE (IF Visit(Head(texts)).yields THEN <<Visit(Head(texts)).value>> ELSE <<>>)
         \o EachLine(Tail(texts))

\* C26: the sentinel line ends nothing: the events are those of the lines of
\* the body with the sentinel lines left out, the lines after a sentinel
\* included, and the generator completes normally only when the body has been
\* delivered whole and the reader reports its end; until then, with nothing
\* left to hand over, it waits in a read.
C26_SentinelDoesNotEndTheSequence ==
    /\ IsPrefix(events, EachLine(SelectSeq(LineTexts, NotSentinel)))
    /\ Done => /\ fed = Len(wire)
               /\ events = EachLine(SelectSeq(LineTexts, NotSentinel))
    /\ genPc = "completed" => genEnd \in {"done", "returned", "threw"}
    /\ genEnd = "returned" => events # <<>>

\* A body whose first line is the sentinel and whose second is a data line was
\* decoded to its end: the data line was yielded.
C26_Witness ==
    /\ Done
    /\ lines = <<DoneLine, OneLine>>
    /\ tail = <<>>
    /\ events = <<JValue("number", <<"1">>)>>

DeltaInit ==
    ProxyParked /\ InitDelta /\ AliasParked /\ CatalogParked /\ RouteParked
    /\ RequestParked /\ BotParked

\* The decoder on streams of completion chunks.
SpecDelta == DeltaInit /\ [][NextStream]_vars

\* The event carries the reasoning of its delta as reasoning_content too, and
\* carries no reasoning_content when its delta has no reasoning.
ReasoningCopied(event) ==
    event.kind = "object" =>
        IF HasField(event.delta, "reasoning")
        THEN /\ HasField(event.delta, "reasoning_content")
             /\ Field(event.delta, "reasoning_content") = Field(event.delta, "reasoning")
        ELSE ~HasField(event.delta, "reasoning_content")

\* C16: every yielded event whose delta has a reasoning field, whatever its
\* value, has reasoning_content equal to it and keeps reasoning; an event
\* whose delta has no reasoning field has no reasoning_content.
C16_ReasoningAlwaysCopied ==
    \A i \in DOMAIN events : ReasoningCopied(events[i])

AliasInit ==
    ProxyParked /\ ParkedStream /\ AliasParked /\ CatalogParked /\ RouteParked
    /\ RequestParked /\ BotParked

SpecAlias == AliasInit /\ [][NextAlias]_vars

(***************************************************************************)
(* Properties of the alias resolver                                        *)
(***************************************************************************)
\* What a call may return: the name is the model asked for, or the default
\* when none was; an entry that is one id allows that id, an array allows its
\* members, no entry allows the name itself.
Allowed(c) ==
    LET name == IF c.model = Absent THEN c.defaultModel ELSE c.model
        entry == TogetherAliases(name)
    IN  IF name \notin TogetherAliasKeys THEN {name}
        ELSE { entry.ids[i] : i \in DOMAIN entry.ids }

\* C9: _getModel replaces an absent name by the default first; a name whose
\* entry is one string resolves to that string, a name whose entry is an array
\* to a member of the array, a name without an entry to itself.
C9_ResolvesToAliasMemberOrItself ==
    /\ lastCall.made => lastCall.result \in Allowed(lastCall)
    /\ prevCall.made => prevCall.result \in Allowed(prevCall)

\* Two calls in a row with the same absent name and the same default, an alias
\* of two members, returned its second member and then its first.
C9_Witness ==
    /\ prevCall.made /\ lastCall.made
    /\ prevCall.model = Absent /\ lastCall.model = Absent
    /\ prevCall.defaultModel = "flux-pro" /\ lastCall.defaultModel = "flux-pro"
    /\ prevCall.result = "black-forest-labs/FLUX.1-pro"
    /\ lastCall.result = "black-forest-labs/FLUX.1.1-pro"

RouteInit ==
    ProxyParked /\ ParkedStream /\ AliasParked /\ CatalogParked /\ RouteConstructed
    /\ RequestParked /\ BotParked

SpecRoute == RouteInit /\ [][NextRoute]_vars

(***************************************************************************)
(* Properties of the routing adapter's chat call                           *)
(***************************************************************************)
\* The router path of a provider key.
RouterPathOf(key, model) ==
    IF key = "novita" THEN <<RouterUrl, "novita/v3/openai", ChatPath>>
    ELSE IF key = "hf-inference"
    THEN <<RouterUrl, "hf-inference", "/models/", model, "/v1", ChatPath>>
    ELSE <<RouterUrl, key, "/v1", ChatPath>>

\* C14: a chat call on the routing adapter either fails without any chat
\* request (no routing map, a first entry that is not conversational, or the
\* lookup of the map itself failing), or issues exactly one POST, to the
\* router path of the first entry's provider key and with that entry's
\* providerId as the model; later entries play no part.
C14_FailsOrPostsToFirstEntry ==
    /\ route.pc \in {"idle", "mapping"} => posts = <<>>
    /\ route.pc \in {"posting", "done"} =>
          \/ /\ route.outcome = "threw"
             /\ posts = <<>>
          \/ /\ route.routing.defined
             /\ route.routing.entries # <<>>
             /\ route.routing.entries[1].task = "conversational"
             /\ posts = <<[url |-> RouterPathOf(route.routing.entries[1].key, route.model),
                           model |-> route.routing.entries[1].providerId]>>

\* The ids providerMapping has an entry for.
StoredIds == { providerMapping[i][1] : i \in DOMAIN providerMapping }

\* The step asks the mapping endpoint for the routing map of a model.
MappingRequested == route.pc # "mapping" /\ route'.pc = "mapping"

\* The fetch of the routing map settles in this step, and it failed: it was
\* rejected, answered with a status that is not ok, or with no JSON.
MappingFetchFailed ==
    /\ route.pc = "mapping" /\ route'.pc = "done"
    /\ route'.error \in {"NetworkError", "UpstreamStatus", "SyntaxError"}

\* C22: a routing map is requested only for an id that has no entry yet (so
\* at most once after a fetch that was answered), a fetch that failed stores
\* nothing, and an entry once stored, the static one included, is neither
\* removed nor replaced.
C22_RoutingCachedForGood ==
    [][ /\ MappingRequested => route'.model \notin StoredIds
        /\ MappingFetchFailed => providerMapping' = providerMapping
        /\ Len(providerMapping') >= Len(providerMapping)
        /\ \A i \in DOMAIN providerMapping : providerMapping'[i] = providerMapping[i]
      ]_vars

CatalogInit ==
    ProxyParked /\ ParkedStream /\ AliasParked /\ CatalogConstructed /\ RouteParked
    /\ RequestParked /\ BotParked

SpecCatalog == CatalogInit /\ [][NextCatalog]_vars

(***************************************************************************)
(* Properties of models.list on the other adapters and of Together's chat  *)
(***************************************************************************)
ListDone == op.kind = "list" /\ op.pc = "done"

\* The fetch of the operation brought a catalog: it resolved ok with JSON.
GotCatalog == op.response.settled = "resolved" /\ op.response.ok
              /\ op.response.body.kind # "notjson"

\* C12: on Together, a chat call and a models.list call that start with an
\* empty catalog cache request the catalog first (before the chat request is
\* sent, before models.list returns), and a catalog that arrives fills the
\* cache and gives every record with an id its config entry.
C12_CatalogRequestedWhenNotCached ==
    adapter = "Together" =>
        /\ (op.kind = "chat" /\ op.uncached /\ op.pc \in {"posting", "done"}) =>
              sent = <<GetModels, PostChat>>
        /\ (ListDone /\ op.uncached) => sent = <<GetModels>>
        /\ (ListDone /\ GotCatalog /\ op.response.body.kind = "array") =>
              /\ cachedModels = op.response.body
              /\ DOMAIN modelConfigs =
                    { op.response.body.items[i].id : i \in DOMAIN op.response.body.items }
                    \ {""}

\* C13: once models.list has returned a catalog it fetched, every later call
\* returns that catalog and issues no request; a call after one whose fetch
\* failed, nothing fetched before, issues the request again.
C13_ListCachedOnceFetched ==
    ListDone =>
        /\ op.prior.has => (sent = <<>> /\ op.result = Return(op.prior.value))
        /\ (~op.prior.has /\ op.prior.failed) => sent = <<GetModels>>

\* The stop list the cache holds for a model, empty when it holds none.
CachedStop(model) ==
    IF model \in DOMAIN modelConfigs /\ modelConfigs[model].hasStop
    THEN modelConfigs[model].stop ELSE <<>>

C20_FailedListFails ==
    (ListDone /\ ~GotCatalog /\ (adapter = "Together" => op.uncached)) =>
        op.result.outcome = "threw"

\* C27: on Together, images.generate called with an empty catalog cache
\* requests the catalog, then issues the image request with the model resolved
\* against the default image model; it does not end before the image request.
C27_ImageLoadsCatalogThenPosts ==
    (adapter = "Together" /\ op.kind = "image" /\ op.uncached
     /\ op.pc \in {"posting", "done"}) =>
        /\ sent = <<GetModels, PostImage>>
        /\ op.body.model \in Allowed([model |-> op.params.model,
                                      defaultModel |-> TogetherImageDefault])

RequestInit ==
    ProxyParked /\ ParkedStream /\ AliasParked /\ CatalogParked /\ RouteParked
    /\ RequestConstructed /\ BotParked

SpecRequest == RequestInit /\ [][NextRequest]_vars

(***************************************************************************)
(* Properties of the requests of the base class and of its tables          *)
(***************************************************************************)
\* The name a call resolves: the model the caller gave, or the default of the
\* kind of call.
ModelAsked(request) ==
    LET asked == ObjGet(request.given, "model", Falsy)
    IN  IF IsTruthy(asked) THEN asked
        ELSE IF request.kind = "chat" THEN settings.defaultModel
        ELSE settings.defaulImageModel

\* What that name may resolve to: the id of its entry, a member of its entry,
\* or the name itself when it has no entry.
ModelsAllowed(request) ==
    LET name == ModelAsked(request)
        entry == IF name = Falsy THEN NoEntry ELSE AliasOf(settings.aliases, name.ids[1])
    IN  IF entry = NoEntry THEN {name}
        ELSE { One(entry.ids[i]) : i \in DOMAIN entry.ids }

\* The model field that went upstream: in the body, or in the query string.
ModelSent(request) ==
    IF request.method = "POST" THEN ObjGet(request.body, "model", Falsy)
    ELSE Text(ObjGet(request.query, "model", <<>>))

\* C21: the model field a chat or image call of the base class sends is one
\* id: the alias entry of the requested name (or of the default), a member of
\* that entry when it is a set, or the name itself when it has no entry;
\* never the set.
C21_ModelSentIsOneResolvedId ==
    issued.pc # "idle" => ModelSent(issued) \in ModelsAllowed(issued)

\* The positions of the alias entries that are, or contain, a physical id.
NamesOf(physical) ==
    { i \in DOMAIN settings.aliases :
        \E k \in DOMAIN settings.aliases[i][2].ids : settings.aliases[i][2].ids[k] = physical }

PhysicalIds ==
    UNION { { settings.aliases[i][2].ids[k] : k \in DOMAIN settings.aliases[i][2].ids } :
            i \in DOMAIN settings.aliases }

\* C24: the swap table maps every physical id that is an alias entry, or a
\* member of one, to the last logical name whose entry is or contains it, and
\* maps no other id.
C24_SwapTableInvertsAliases ==
    \A physical \in PhysicalIds \cup {"o3"} :
        swapOf(swapTable, physical) =
            IF NamesOf(physical) = {} THEN Absent
            ELSE settings.aliases[CHOOSE i \in NamesOf(physical) :
                                    \A k \in NamesOf(physical) : k <= i][1]

\* The GET of the template path has been issued.
TemplateGet == issued.pc # "idle" /\ issued.kind = "image" /\ issued.method = "GET"

QueryKeys == { issued.query[i][1] : i \in DOMAIN issued.query }
GivenKeys == { issued.given[i][1] : i \in DOMAIN issued.given }

\* The prompt as the path shows it: a space as "+", the reserved characters
\* escaped.
PathOf(chars) ==
    [i \in DOMAIN chars |->
        CASE chars[i] = " " -> "+"
          [] chars[i] = "+" -> "%2B"
          [] chars[i] = "/" -> "%2F"
          [] OTHER -> chars[i]]

\* The keys whose value the adapter sets itself.
SetByAdapter == {"model", "referrer", "width", "height"}

\* Everything C25 says but the absence of the size key.
QueryAsClaimed ==
    /\ "prompt" \notin QueryKeys
    /\ ObjGet(issued.given, "size", Falsy) = Text(<<"512", "x", "256">>) =>
          /\ ObjGet(issued.query, "width", <<>>) = <<"512">>
          /\ ObjGet(issued.query, "height", <<>>) = <<"256">>
    /\ \A key \in GivenKeys \ {"prompt", "size"} :
          /\ key \in QueryKeys
          /\ key \notin SetByAdapter =>
                ObjGet(issued.query, key, <<>>) = StringOf(ObjGet(issued.given, key, Falsy))
    /\ issued.path = PathOf(ObjGet(issued.given, "prompt", Falsy).ids)
    /\ \A key \in {"prompt", "size"} :
          /\ ObjHas(callerParams, key) = ObjHas(issued.given, key)
          /\ ObjGet(callerParams, key, Falsy) = ObjGet(issued.given, key, Falsy)

\* C25 as stated: on the template path the query string has no size key and
\* no prompt key for any params object; a size WxH shows as width and height;
\* every other param of the caller is in the query string; the prompt is in
\* the path only, spaces as "+"; the caller's object keeps prompt and size.
C25_QueryNeverHasSize ==
    TemplateGet => ("size" \notin QueryKeys /\ QueryAsClaimed)

\* C25, amended: the query string has no size key when the caller gave no
\* size or a size that is not empty; an empty size (falsy) is carried like any
\* other param.  The rest as stated.
C25_QueryHasNoTruthySize ==
    TemplateGet =>
        /\ "size" \in QueryKeys <=>
              (ObjHas(issued.given, "size") /\ ~IsTruthy(ObjGet(issued.given, "size", Falsy)))
        /\ QueryAsClaimed

\* A call with a prompt that has a space and a size 512x256, on a template
\* endpoint: the GET has width and height and no size.
C25_Witness ==
    /\ TemplateGet
    /\ ObjGet(issued.given, "prompt", Falsy) = Text(<<"a", " ", "c">>)
    /\ ObjGet(issued.given, "size", Falsy) = Text(<<"512", "x", "256">>)
    /\ issued.path = <<"a", "+", "c">>
    /\ ObjGet(issued.query, "width", <<>>) = <<"512">>
    /\ "size" \notin QueryKeys

BotInit ==
    ProxyParked /\ ParkedStream /\ AliasParked /\ CatalogParked /\ RouteParked
    /\ RequestParked /\ BotStarted

SpecBot == BotInit /\ [][NextBot]_vars

(***************************************************************************)
(* Properties of the bot's session                                         *)
(***************************************************************************)
\* C28: whenever the user's model is set it is the id of a model in the
\* catalog that was listed from the user's current provider, and each chat
\* request of !ask is made with provider, model and client all set.
C28_ModelFromCurrentProvidersCatalog ==
    /\ usersData.model # Absent =>
          /\ usersData.models.by = usersData.provider
          /\ found(usersData.models, usersData.model)
    /\ chat # NoChat =>
          /\ chat.provider # Absent
          /\ chat.model # Absent
          /\ chat.client # Absent

\* user, assistant, user, assistant, ...
Alternates(history) ==
    \A k \in DOMAIN history :
       history[k].role = (IF k % 2 = 1 THEN "user" ELSE "assistant")

\* C29: whenever no !ask is in flight the history alternates user and
\* assistant messages, starting with a user message; a chat request leaves
\* the history it is given as it is, and entries are only ever appended.
C29_HistoryAlternates ==
    /\ [](AsksInFlight = {} => Alternates(usersData.history))
    /\ [][IsPrefix(usersData.history, usersData'.history)]_vars
    /\ [][chat' # chat => usersData'.history = usersData.history]_vars

====
